---- MODULE Spec2Model ----
(***************************************************************************)
(* Model of the stock-market ETL pipeline (scripts/ingest_backfill_raw.py, *)
(* scripts/ingest_hourly.py, scripts/transform.py,                         *)
(* scripts/load_stock_metrics.py, scripts/load_to_db.py).                  *)
(*                                                                         *)
(* A DataFrame is a bag (multiset) of rows: polars keeps duplicates.  The  *)
(* order of the rows inside one frame is not part of the model: unique()   *)
(* is given the frames of a concatenation in their order, each with one    *)
(* row per key, and compute_metrics sorts before it computes.              *)
(* A row carries its key (ticker, date) and its close; open, high, low,    *)
(* volume and ingest_ts travel with the close through every operation and  *)
(* are represented by it.  Dates are day numbers 1, 2, ...; DaysPerYear    *)
(* consecutive days make one calendar year.                                *)
(***************************************************************************)
EXTENDS Integers, Sequences, FiniteSets, Bags, TLC

\* ------------------------------------------------------------- bounds
MaxDate == 3
DaysPerYear == 2
MaxClose == 1
MaxFetch == 2
MaxBackfills == 1
MaxMerge == 1
MaxRuns == 2
MaxLead == 1
MaxProcs == 2

\* ------------------------------------------------------------- domains
\* config.TICKERS, in list order (which is also the S3 listing order).
TICKERS == <<"A", "B">>
Tickers == {TICKERS[i] : i \in DOMAIN TICKERS}
TickerIndex(t) == CHOOSE i \in DOMAIN TICKERS : TICKERS[i] = t

Dates == 1..MaxDate
Closes == 0..MaxClose

\* pl.col("date").dt.year()
YearOf(d) == ((d - 1) \div DaysPerYear) + 1
Years == {YearOf(d) : d \in Dates}

\* f"raw/{year}/{ticker}_metrics.parquet", f"enriched/{year}/{ticker}_metrics.parquet"
Keys == Years \X Tickers

\* config.BACKFILL_START_DATE: the first day of the first year.
BACKFILL_START_DATE == 1

\* ------------------------------------------------------------- rows and frames
KeyOf(r) == <<r.ticker, r.date>>
KeysOf(df) == {KeyOf(r) : r \in BagToSet(df)}
Height(df) == BagCardinality(df)
IsEmpty(df) == df = EmptyBag

\* df.filter(predicate)
Filter(df, P(_)) ==
    LET S == {r \in BagToSet(df) : P(r)}
    IN  [r \in S |-> df[r]]

\* pl.concat([a, b], how="vertical")
Concat(a, b) == a (+) b

\* No two rows of the frame share (ticker, date).
UniqueKeys(df) ==
    /\ \A r \in BagToSet(df) : df[r] = 1
    /\ \A r, s \in BagToSet(df) : KeyOf(r) = KeyOf(s) => r = s

\* An object of the partition store: absent, or a (possibly empty) frame.
\* `missing` names the columns the stored file lacks; the scripts write files
\* with every column.
Absent == [exists |-> FALSE, rows |-> EmptyBag, missing |-> {}]
ObjectMissing(df, cols) == [exists |-> TRUE, rows |-> df, missing |-> cols]
Object(df) == ObjectMissing(df, {})
EmptyStore == [k \in Keys |-> Absent]

\* ------------------------------------------------------------- fetcher
\* yf.download(tickers, start, end): rows for some of the (ticker, date)
\* pairs with start <= date < end, one row per pair, any close; at most n
\* rows.
FetchUpTo(start, end, n) ==
    LET pairs == Tickers \X {d \in Dates : start <= d /\ d < end}
    IN  UNION { { SetToBag({[ticker |-> k[1], date |-> k[2], close |-> f[k]] : k \in K})
                  : f \in [K -> Closes] }
                : K \in {J \in SUBSET pairs : Cardinality(J) <= n} }

Fetch(start, end) == FetchUpTo(start, end, MaxFetch)

\* ------------------------------------------------------------- hourly merge
\* A filter on the year alone.
SubsetOfYear(df, year, ticker) ==
    LET P(r) == YearOf(r.date) = year
    IN  Filter(df, P)

\* df.filter((year == year) & (ticker == ticker))
Subset(df, year, ticker) ==
    LET P(r) == YearOf(r.date) = year /\ r.ticker = ticker
    IN  Filter(df, P)

\* years = df.select(date.dt.year()).unique()
YearsOf(df) == {YearOf(r.date) : r \in BagToSet(df)}

\* download_from_s3: the stored frame, an empty frame when the key is absent.
download_from_s3(store, key) == IF store[key].exists THEN store[key].rows ELSE EmptyBag

\* pl.concat(frames, how="vertical"): the rows of the frames, in the order
\* of the frames.
RECURSIVE ConcatAll(_)
ConcatAll(frames) ==
    IF frames = <<>> THEN EmptyBag
    ELSE Concat(Head(frames), ConcatAll(Tail(frames)))

\* unique(keep="any") leaves it to the engine which row of a key is kept.
\* An engine keeps by one rule, the same at every call: the first row of the
\* key in the order of the concatenation, or the last.
KeepRules == {"first", "last"}

\* One row for each key of a frame.  Every frame the scripts concatenate
\* holds one row per key (a fetched frame, a stored partition), so this is
\* the frame itself.
OnePerKey(df) == SetToBag({CHOOSE r \in BagToSet(df) : KeyOf(r) = k : k \in KeysOf(df)})

\* The rows of df whose key is not in `kept`.
Unseen(kept, df) ==
    LET P(r) == KeyOf(r) \notin KeysOf(kept)
    IN  Filter(df, P)

\* For each key, the row of the first frame that holds the key.
RECURSIVE KeepFirst(_)
KeepFirst(frames) ==
    IF frames = <<>> THEN EmptyBag
    ELSE LET head == OnePerKey(Head(frames))
         IN  head (+) Unseen(head, KeepFirst(Tail(frames)))

Reversed(s) == [i \in 1..Len(s) |-> s[Len(s) + 1 - i]]

\* A merge that keeps every row of the concatenation.
UniqueNoDedup(frames, rule) == ConcatAll(frames)

\* A merge that removes repeated keys from the first frame alone.
UniqueOfStored(frames, rule) == Concat(OnePerKey(Head(frames)), ConcatAll(Tail(frames)))

\* pl.concat(frames).unique(subset=["date", "ticker"]) with the default
\* keep="any": one row per key, the one the engine's rule keeps.
Unique(frames, rule) ==
    IF rule = "first" THEN KeepFirst(frames) ELSE KeepFirst(Reversed(frames))

\* A merge that writes the fetched rows alone.
CombinedNewOnly(existing, subset) == <<subset>>

\* [existing_data[key], subset_df], the frames given to pl.concat
Combined(existing, subset) == <<existing, subset>>

\* The keys the hourly merge reads and writes: every ticker of every year
\* that occurs in the fetched frame.
MergeKeys(df) == YearsOf(df) \X Tickers

\* save_partitioned_parquet of ingest_hourly.py run by itself with nothing
\* failing: the store it leaves.
HourlySave(store, df, rule) ==
    IF IsEmpty(df) THEN store
    ELSE [k \in Keys |->
            IF k \in MergeKeys(df)
            THEN Object(Unique(Combined(download_from_s3(store, k),
                                        Subset(df, k[1], k[2])), rule))
            ELSE store[k]]

\* ------------------------------------------------------------- backfill
\* save_partitioned_parquet of ingest_backfill_raw.py: every non-empty
\* (year, ticker) subset of the fetched frame replaces its partition.
BackfillSave(store, df) ==
    IF IsEmpty(df) THEN store
    ELSE [k \in Keys |->
            IF k[1] \in YearsOf(df) /\ ~IsEmpty(Subset(df, k[1], k[2]))
            THEN Object(Subset(df, k[1], k[2]))
            ELSE store[k]]

\* ------------------------------------------------------------- transform
\* get_years: the years that have at least one object under raw/.
get_years(store) == {k[1] : k \in {x \in Keys : store[x].exists}}

\* load_raw_df: the stored frame, an empty frame when the key is absent.
load_raw_df(store, year, ticker) ==
    IF store[<<year, ticker>>].exists THEN store[<<year, ticker>>].rows ELSE EmptyBag

RECURSIVE GCD(_, _)
GCD(a, b) == IF b = 0 THEN a ELSE GCD(b, a % b)
Abs(x) == IF x < 0 THEN -x ELSE x

\* A daily_return cell: null, a float64 that is the exact fraction num/den in
\* lowest terms, or the float64 specials a division by zero yields.
NullRet == [kind |-> "null", num |-> 0, den |-> 1]
NaNRet == [kind |-> "nan", num |-> 0, den |-> 1]
InfRet == [kind |-> "inf", num |-> 1, den |-> 1]
Num(n, d) ==
    LET g == GCD(Abs(n), d)
    IN  [kind |-> "num", num |-> n \div g, den |-> d \div g]

\* 100 * close.pct_change(): 100 * (cur - prev) / prev in float64.
PctChange100(prev, cur) ==
    IF prev = 0
    THEN (IF cur = 0 THEN NaNRet ELSE InfRet)
    ELSE Num(100 * (cur - prev), prev)

\* A sort by date alone, tickers interleaved.
RowLessByDate(a, b) ==
    \/ a.date < b.date
    \/ a.date = b.date /\ TickerIndex(a.ticker) < TickerIndex(b.ticker)

\* .sort(["ticker", "date"]): the order of rows that tie is not specified.
RowLess(a, b) ==
    \/ TickerIndex(a.ticker) < TickerIndex(b.ticker)
    \/ a.ticker = b.ticker /\ a.date < b.date

RECURSIVE SortRows(_)
SortRows(df) ==
    IF df = EmptyBag THEN <<>>
    ELSE LET S == BagToSet(df)
             m == CHOOSE r \in S : \A s \in S : ~RowLess(s, r)
         IN  <<m>> \o SortRows(df (-) SetToBag({m}))

\* The frame whose rows are the elements of a sequence.
FrameOf(seq) ==
    LET S == {seq[i] : i \in DOMAIN seq}
    IN  [r \in S |-> Cardinality({i \in DOMAIN seq : seq[i] = r})]

Enriched(r, ret) ==
    [ticker |-> r.ticker, date |-> r.date, close |-> r.close, daily_return |-> ret]

\* A transformer that drops the row that has no previous close.
ComputeMetricsDropFirst(df) ==
    LET s == SortRows(df)
    IN  FrameOf([i \in 1..(Len(s) - 1) |->
                   Enriched(s[i + 1], PctChange100(s[i].close, s[i + 1].close))])

\* compute_metrics: sort by (ticker, date), then daily_return is 100 times the
\* change from the previous row of the same ticker, null on a ticker's first
\* row.  rolling_vol_30d is a function of the daily_return column alone and
\* changes no other column; it is not represented.
compute_metrics(df) ==
    IF IsEmpty(df) THEN df
    ELSE LET s == SortRows(df)
         IN  FrameOf([i \in DOMAIN s |->
                        Enriched(s[i],
                                 IF i = 1 \/ s[i - 1].ticker # s[i].ticker
                                 THEN NullRet
                                 ELSE PctChange100(s[i - 1].close, s[i].close))])

\* expected_schema of data_quality_checks, and its columns in dict order.
expected_schema ==
    [date |-> "Datetime", close |-> "Float64", high |-> "Float64", low |-> "Float64",
     open |-> "Float64", volume |-> "Int64", ticker |-> "Utf8", ingest_ts |-> "Datetime",
     daily_return |-> "Float64", rolling_vol_30d |-> "Float64"]
SchemaOrder ==
    <<"date", "close", "high", "low", "open", "volume", "ticker", "ingest_ts",
      "daily_return", "rolling_vol_30d">>

\* crit_columns, in list order.
crit_columns == <<"ticker", "date">>

\* What data_quality_checks reads of a frame: df.columns, df.schema, and the
\* null counts of the critical columns that are there.
GateView(columns, dtypes, nulls) == [columns |-> columns, dtypes |-> dtypes, nulls |-> nulls]

\* The first of a set of indexes.
FirstIn(I) == CHOOSE i \in I : \A j \in I : i <= j

\* The violations data_quality_checks logs before it returns: every missing
\* column in one message; otherwise the first column, in schema order, whose
\* type differs; otherwise the first critical column that holds a null.
quality_log(v) ==
    LET missing_cols == {c \in DOMAIN expected_schema : c \notin v.columns}
        badType == {i \in DOMAIN SchemaOrder :
                       v.dtypes[SchemaOrder[i]] # expected_schema[SchemaOrder[i]]}
        hasNull == {i \in DOMAIN crit_columns : v.nulls[crit_columns[i]] > 0}
    IN  IF missing_cols # {} THEN {<<"missing", c>> : c \in missing_cols}
        ELSE IF badType # {} THEN {<<"type", SchemaOrder[FirstIn(badType)]>>}
        ELSE IF hasNull # {} THEN {<<"null", crit_columns[FirstIn(hasNull)]>>}
        ELSE {}

\* data_quality_checks returns True exactly when it has logged no violation.
data_quality_checks(v) == quality_log(v) = {}

\* The columns of the frames of the model that a row carries as fields.
RowColumns == {"ticker", "date", "close", "daily_return"}

\* The view of a frame of rows whose file lacks the columns `missing`: a
\* column is there when the file has it and, for a column carried by the
\* rows, when every row has the field; the types are the declared ones and
\* no cell is null.
ViewOf(df, missing) ==
    LET cols == {c \in DOMAIN expected_schema :
                    /\ c \notin missing
                    /\ c \in RowColumns => \A r \in BagToSet(df) : c \in DOMAIN r}
    IN  GateView(cols, [c \in cols |-> expected_schema[c]],
                 [c \in {"ticker", "date"} \cap cols |-> 0])

\* The columns a raw file lacks.
raw_missing(store, year, ticker) == store[<<year, ticker>>].missing

\* load_raw_df casts volume, and compute_metrics sorts by ticker and date and
\* reads close: a frame without one of them raises.
Raises(missing) == missing \cap {"volume", "ticker", "date", "close"} # {}

\* A process_ticker that saves what the gate rejects.
ProcessOutcomeNoGate(rawStore, year, ticker, fault) ==
    IF fault THEN "raised"
    ELSE IF ~rawStore[<<year, ticker>>].exists THEN "skipped"
    ELSE IF "volume" \in raw_missing(rawStore, year, ticker) THEN "raised"
    ELSE IF IsEmpty(load_raw_df(rawStore, year, ticker)) THEN "skipped"
    ELSE IF Raises(raw_missing(rawStore, year, ticker)) THEN "raised"
    ELSE "published"

\* How process_ticker ends for one (year, ticker): it returns without a
\* write when there is no raw frame or no row ("skipped"), it raises (an
\* object-store error, `fault`, or a column that is not there), it logs that
\* the quality gate failed and writes nothing ("rejected"), or it saves the
\* enriched frame ("published").
ProcessOutcome(rawStore, year, ticker, fault) ==
    IF fault THEN "raised"
    ELSE IF ~rawStore[<<year, ticker>>].exists THEN "skipped"
    ELSE IF "volume" \in raw_missing(rawStore, year, ticker) THEN "raised"
    ELSE IF IsEmpty(load_raw_df(rawStore, year, ticker)) THEN "skipped"
    ELSE IF Raises(raw_missing(rawStore, year, ticker)) THEN "raised"
    ELSE IF data_quality_checks(ViewOf(compute_metrics(load_raw_df(rawStore, year, ticker)),
                                       raw_missing(rawStore, year, ticker)))
         THEN "published"
         ELSE "rejected"

\* ------------------------------------------------------------- loader
\* SELECT ticker, MAX(date) ... GROUP BY ticker: one entry per ticker that
\* has a row in the table.
get_latest_dates(table) ==
    LET T == {r.ticker : r \in BagToSet(table)}
    IN  [t \in T |-> CHOOSE d \in {r.date : r \in BagToSet(table)} :
                       /\ \E r \in BagToSet(table) : r.ticker = t /\ r.date = d
                       /\ \A r \in BagToSet(table) : r.ticker = t => r.date <= d]

\* transform.get_latest_ingest_year is imported by both loaders and defined
\* nowhere in the repository: the year of the latest date in the table, and
\* None (0 here) for an empty table.
NoYear == 0
get_latest_ingest_year(table) ==
    IF IsEmpty(table) THEN NoYear
    ELSE LET D == {r.date : r \in BagToSet(table)}
         IN  YearOf(CHOOSE d \in D : \A e \in D : e <= d)

\* A loader that starts an empty table at the current year.
StartYearCurrent(latest_ingest_yr, day) ==
    IF latest_ingest_yr = NoYear THEN YearOf(day) ELSE latest_ingest_yr

\* main of load_stock_metrics.py: the first year to load is the latest year of
\* the table, and the year of BACKFILL_START_DATE for an empty table.
StartYear(latest_ingest_yr, day) ==
    IF latest_ingest_yr = NoYear THEN YearOf(BACKFILL_START_DATE) ELSE latest_ingest_yr

\* DELETE FROM stock_metrics WHERE date = :today
DeleteToday(table, day) ==
    LET P(r) == r.date # day
    IN  Filter(table, P)

\* A filter that keeps the rows dated on the latest loaded date too.
FilterNewAtOrAfter(df, latest_dates) ==
    LET P(r) == r.ticker \notin DOMAIN latest_dates \/ r.date >= latest_dates[r.ticker]
    IN  Filter(df, P)

\* The duplicate filter: with at least one latest date known, a left join on
\* ticker keeps the rows of a ticker without one and the rows dated after it.
FilterNew(df, latest_dates) ==
    LET P(r) == r.ticker \notin DOMAIN latest_dates \/ r.date > latest_dates[r.ticker]
    IN  IF DOMAIN latest_dates = {} THEN df ELSE Filter(df, P)

\* ------------------------------------------------------------- hourly main
\* list_objects_v2(Prefix="raw/"): the stored keys in key order.
KeyLess(a, b) == a[1] < b[1] \/ (a[1] = b[1] /\ TickerIndex(a[2]) < TickerIndex(b[2]))

RECURSIVE SortKeys(_)
SortKeys(K) ==
    IF K = {} THEN <<>>
    ELSE LET m == CHOOSE k \in K : \A j \in K : ~KeyLess(j, k)
         IN  <<m>> \o SortKeys(K \ {m})

ListRaw(store) == SortKeys({k \in Keys : store[k].exists})

\* The value of latest_date: None, NaT (the max of a frame without rows), or a date.
None == 0
NaT == -1
MaxDateOf(df) ==
    IF IsEmpty(df) THEN NaT
    ELSE LET D == {r.date : r \in BagToSet(df)}
         IN  CHOOSE d \in D : \A e \in D : e <= d

\* if not latest_date or latest_cand > latest_date: latest_date = latest_cand.
\* None is falsy; NaT is truthy and every comparison with NaT is false, so
\* once latest_date is NaT it stays NaT.
LatestStep(latest, cand) ==
    IF latest = None THEN cand
    ELSE IF latest = NaT \/ cand = NaT THEN latest
    ELSE IF cand > latest THEN cand ELSE latest

RECURSIVE LatestFold(_, _, _)
LatestFold(store, keys, latest) ==
    IF keys = <<>> THEN latest
    ELSE LatestFold(store, Tail(keys), LatestStep(latest, MaxDateOf(store[Head(keys)].rows)))

\* get_latest_ingest_date: one latest date over every partition under raw/.
get_latest_ingest_date(store) == LatestFold(store, ListRaw(store), None)
\* ------------------------------------------------------------- state
\* The scripts are operating-system processes that share the partition
\* store and the table and nothing else; nothing in the repository keeps two
\* of them from running at once.  At most MaxProcs of them are in flight, and
\* a process is known by the slot it runs in.
Procs == 1..MaxProcs

VARIABLES
    today,      \* the current day
    raw,        \* partition store, raw/ domain: key -> object
    enriched,   \* partition store, enriched/ domain: key -> object
    db,         \* the stock_metrics table: a bag of enriched rows
    pc,         \* for each slot: where its process is, or "idle"
    run,        \* for each slot: the invocation, its entry point and what held when it began
    status,     \* for each slot: how the last stage of the invocation has ended
    last,       \* the record of the process that ended last on this day
    scan,       \* for each slot: the locals of get_latest_ingest_date and of main of ingest_hourly.py
    ld,         \* for each slot: the locals of the loader
    hist,       \* how many fetches returned rows so far, and the first frame
    loadedOk,   \* the last loader run ended normally and enriched/ is as it read it
    lost,       \* an upload of a backfill has failed
    nBackfill,  \* backfill runs so far
    nRuns,      \* other invocations so far
    bf,         \* for each slot: the frame and the uploads of ingest_backfill_raw.py
    keep,       \* the rule by which the engine's unique(keep="any") keeps a row
    step,       \* applications so far (merge, metrics and gate specifications)
    batch,      \* for each slot: df, the fetched frame given to the hourly save
    rawPre,     \* for each slot: the raw store when the hourly save was called
    rawOnce,    \* the raw store when the first save returned (merge specification)
    inDf,       \* the frame given to compute_metrics (metrics specification)
    outDf,      \* the frame it returned (metrics specification)
    view,       \* the frame given to data_quality_checks (gate specification)
    report,     \* what it returned and logged (gate specification)
    faults,     \* for each slot: the keys at which the object store failed in the transform run
    outcome,    \* for each slot: how process_ticker stands or has ended for each key
    listed,     \* for each slot: years, what get_years returned to main of transform.py
    snap,       \* for each slot: the raw objects the running process_ticker calls have read
    phase,      \* for each slot: where save_partitioned_parquet of ingest_hourly.py is
    rd,         \* for each slot: the state of each key's read future
    wr,         \* for each slot: the state of each key's write future
    existing,   \* for each slot: existing_data, the frames read so far
    merged      \* for each slot: merged_data

storeVars == <<raw, enriched, db>>
ctlVars == <<pc, run, status, last>>
countVars == <<nBackfill, nRuns>>
ingestVars == <<scan, hist>>
engineVars == <<phase, rd, wr, existing, merged, batch, rawPre>>
transformVars == <<faults, outcome, listed, snap>>
loaderVars == <<ld, loadedOk>>
backfillVars == <<bf, lost>>
metricVars == <<inDf, outDf>>
gateVars == <<view, report>>
fnVars == <<keep, step, rawOnce, metricVars, gateVars>>
vars == <<today, raw, enriched, db, pc, run, status, last, scan, ld, hist, loadedOk,
          lost, nBackfill, nRuns, bf, keep, step, batch, rawPre, rawOnce, inDf, outDf,
          view, report, faults, outcome, listed, snap, phase, rd, wr, existing, merged>>

NoLatest == [t \in {} |-> 0]
NoFutures == [k \in Keys |-> "none"]
NoOutcome == [k \in Keys |-> "none"]

\* No process runs in the slot.
NoRun == [kind |-> "none", had |-> {}, tries |-> 0, day |-> 0, fetched |-> EmptyBag,
          alone |-> FALSE, fetches |-> 0]

\* No process has ended on this day.
NoLast == [run |-> NoRun, stage |-> "none", status |-> "ok", first |-> FALSE]

\* The loader has not read anything.  `today` is the local of
\* load_to_stock_metrics; `dbPre` is the table and `prevOk` the
\* value of loadedOk when the run began; `soleWriter` tells that no other
\* process has changed the table since, `sameInput` that none has changed an
\* enriched partition since.
NoLoad == [variant |-> "none", yr |-> NoYear, latest_dates |-> NoLatest, years |-> {},
           today |-> 0, todo |-> <<>>, frames |-> EmptyBag, dbPre |-> EmptyBag, prevOk |-> FALSE,
           soleWriter |-> FALSE, sameInput |-> FALSE]

NoHist == [n |-> 0, first |-> EmptyBag]

\* main of ingest_hourly.py has not read the clock (`day` is its local
\* `today`), and get_latest_ingest_date has not been called: `keys` are the
\* listed keys it has still to read, `read` the keys it has read.
NoScan == [day |-> 0, keys |-> <<>>, read |-> {}, latest |-> None]

\* ingest_backfill_raw.py does not run in the slot.
NoBackfill == [batch |-> EmptyBag, wr |-> NoFutures]

\* The tickers with a row dated `day` in the table.
HasRowOn(table, day) == {r.ticker : r \in {x \in BagToSet(table) : x.date = day}}

\* The slots in which a process runs, and the slot the next process gets.
InFlight == {p \in Procs : pc[p] # "idle"}
FreeSlot == CHOOSE p \in Procs \ InFlight : \A q \in Procs \ InFlight : p <= q

\* The record of an invocation that begins: run_pipeline.py, a run of a DAG,
\* or a script or the save run by itself.  `alone` tells that no other
\* process is in flight, `fetches` how many fetches had returned rows, and
\* `fetched` is the frame its ingestion stage has fetched.
BeginRun(kind, df) ==
    [kind |-> kind, had |-> HasRowOn(db, today), tries |-> 0, day |-> today,
     fetched |-> df, alone |-> (InFlight = {}), fetches |-> hist.n]

\* A process of the given kind starts in slot p at the given stage; the
\* processes in flight are no longer alone.
Begins(p, kind, stage, df) ==
    /\ pc' = [pc EXCEPT ![p] = stage]
    /\ status' = [status EXCEPT ![p] = "ok"]
    /\ run' = [q \in Procs |->
                 IF q = p THEN BeginRun(kind, df)
                 ELSE IF q \in InFlight THEN [run[q] EXCEPT !.alone = FALSE]
                 ELSE run[q]]

\* One more fetch has returned: the first frame with rows is kept while it is
\* the only one.
Fetched(h, df) ==
    IF IsEmpty(df) THEN h
    ELSE IF h.n = 0 THEN [n |-> 1, first |-> df]
    ELSE [n |-> 2, first |-> EmptyBag]

\* No process runs.
InitProcs ==
    /\ pc = [p \in Procs |-> "idle"]
    /\ run = [p \in Procs |-> NoRun]
    /\ status = [p \in Procs |-> "ok"]
    /\ last = NoLast
    /\ scan = [p \in Procs |-> NoScan]
    /\ ld = [p \in Procs |-> NoLoad]
    /\ bf = [p \in Procs |-> NoBackfill]

\* save_partitioned_parquet of ingest_hourly.py has not been called.
InitEngineVars ==
    /\ phase = [p \in Procs |-> "idle"]
    /\ rd = [p \in Procs |-> NoFutures]
    /\ wr = [p \in Procs |-> NoFutures]
    /\ existing = [p \in Procs |-> <<>>]
    /\ merged = [p \in Procs |-> <<>>]
    /\ batch = [p \in Procs |-> EmptyBag]
    /\ rawPre = [p \in Procs |-> EmptyStore]

\* transform.py has not run.
InitTransformVars ==
    /\ faults = [p \in Procs |-> {}]
    /\ outcome = [p \in Procs |-> NoOutcome]
    /\ listed = [p \in Procs |-> {}]
    /\ snap = [p \in Procs |-> EmptyStore]

InitMetricVars ==
    /\ inDf = EmptyBag
    /\ outDf = EmptyBag

\* No frame has been given to the gate.
NoView == GateView({}, <<>>, <<>>)
NoReport == [pass |-> TRUE, logged |-> {}]
InitGateVars ==
    /\ view = NoView
    /\ report = NoReport

\* No stage has run: nothing is enriched or loaded.
InitStages ==
    /\ enriched = EmptyStore
    /\ db = EmptyBag
    /\ hist = NoHist
    /\ loadedOk = FALSE
    /\ lost = FALSE
    /\ nBackfill = 0
    /\ nRuns = 0
    /\ InitTransformVars
    /\ InitEngineVars

\* The engine keeps by either rule, and no function of the function
\* specifications has been applied.
InitFnVars ==
    /\ keep \in KeepRules
    /\ rawOnce = EmptyStore
    /\ step = 0
    /\ InitMetricVars
    /\ InitGateVars

\* Nothing is stored and nothing runs, on the day after BACKFILL_START_DATE.
Init ==
    /\ today = BACKFILL_START_DATE + 1
    /\ raw = EmptyStore
    /\ InitProcs
    /\ InitStages
    /\ InitFnVars

\* ------------------------------------------------------------- clock
\* A day passes, whatever runs.  Each stage reads the clock when it needs
\* the date; the record of the process that ended last is of the day it
\* ended.
Tick ==
    /\ today < MaxDate
    /\ today' = today + 1
    /\ last' = NoLast
    /\ UNCHANGED <<storeVars, pc, run, status, ingestVars, engineVars, transformVars,
                   loaderVars, backfillVars, countVars, fnVars>>

\* ------------------------------------------------------------- launcher
\* The entry points that run the three stages in order.
Entries == {"run_pipeline", "hourly_dag"}

\* The scripts of the stages, which can be run by themselves.
Scripts == {"ingest_hourly", "transform", "load_stock_metrics", "load_to_db"}

\* The stage an invocation begins with.
FirstStage(kind) ==
    IF kind = "transform" THEN "transform"
    ELSE IF kind \in {"load_stock_metrics", "load_to_db"} THEN "load"
    ELSE "ingest"

\* The stage that follows the ingestion: the transform stage in
\* run_pipeline.py (backfill_raw = False) and in the stocks_hourly DAG, none
\* when ingest_hourly.py or its save is run by itself.
AfterIngest(kind) == IF kind \in Entries THEN "transform" ELSE "idle"

\* The stage that follows the transform stage.
AfterTransform(kind) == IF kind \in Entries THEN "load" ELSE "idle"

\* default_args of the stocks_hourly DAG: a task that fails is run once more.
Retries(kind) == IF kind = "hourly_dag" THEN 1 ELSE 0

\* A launcher that starts the next stage without waiting for the process.
ProcessExitedAtOnce(ph) == TRUE

\* subprocess.run (a BashOperator task in the DAG) returns when the process
\* of the stage has exited.
ProcessExited(ph) == ph = "done"

\* check=True (the all_success trigger rule in the DAG): the next stage
\* starts only after an exit status of 0.
NextStage(st, stage) == IF st = "ok" THEN stage ELSE "idle"

\* The record of the invocation of slot p when it ends in the given stage
\* with status st.  `first` tells that it loaded into a table that was empty,
\* after no more than one fetch that returned rows.
Ended(p, stage, st) ==
    [run |-> [run[p] EXCEPT !.tries = 0], stage |-> stage, status |-> st,
     first |-> (stage = "load" /\ st = "ok" /\ ld[p].dbPre = EmptyBag /\ hist.n = 1)]

\* The process of a stage of the invocation in slot p exits with status st:
\* the launcher starts the stage `next`, or the same stage again when the
\* task has a retry left, or the invocation ends.
StageEnds(p, stage, st, next) ==
    LET again == st # "ok" /\ run[p].tries < Retries(run[p].kind)
        to == IF again THEN stage ELSE NextStage(st, next)
    IN  /\ pc' = [pc EXCEPT ![p] = to]
        /\ status' = [status EXCEPT ![p] = IF to = "idle" THEN "ok" ELSE st]
        /\ run' = [run EXCEPT ![p] = IF to = "idle" THEN NoRun
                                     ELSE [@ EXCEPT !.tries = IF again THEN @ + 1 ELSE 0]]
        /\ last' = IF to = "idle" THEN Ended(p, stage, st) ELSE last

\* run_pipeline.py is run, a run of the stocks_hourly DAG starts, or a
\* script is run by itself, whatever else is running: its first stage is
\* next.
Invoke(kind, cap) ==
    /\ InFlight # Procs
    /\ nRuns < cap
    /\ nRuns' = nRuns + 1
    /\ Begins(FreeSlot, kind, FirstStage(kind), EmptyBag)
    /\ UNCHANGED <<today, storeVars, last, ingestVars, engineVars, transformVars,
                   loaderVars, backfillVars, nBackfill, fnVars>>

\* ------------------------------------------------------------- backfill
\* The keys the backfill uploads: the (year, ticker) pairs with fetched rows.
BackfillKeys(df) == {k \in Keys : ~IsEmpty(Subset(df, k[1], k[2]))}

\* The futures submitted for the keys K.
Submitted(K) == [k \in Keys |-> IF k \in K THEN "pending" ELSE "none"]

\* A pool that is left while futures are still running.
JoinedAtOnce(f) == TRUE

\* Leaving a `with ThreadPoolExecutor` block (shutdown(wait=True)): every
\* future submitted to the pool has ended.
Joined(f) == \A k \in Keys : f[k] # "pending"

\* The stocks_backfill DAG (triggered by hand, at any time) or
\* ingest_backfill_raw.py run by itself, whatever else is running: main
\* fetches BACKFILL_START_DATE <= date < END_DATE (today, read when the
\* process starts), and save_partitioned_parquet submits one upload_partition
\* for each (year, ticker) with fetched rows, none for an empty frame.  No
\* later task of the DAG touches the stores of the model.
BackfillMain(n, cap) ==
    /\ InFlight # Procs
    /\ nBackfill < cap
    /\ nBackfill' = nBackfill + 1
    /\ \E b \in FetchUpTo(BACKFILL_START_DATE, today, n) :
          /\ hist' = Fetched(hist, b)
          /\ Begins(FreeSlot, "backfill", "backfill", b)
          /\ bf' = [bf EXCEPT ![FreeSlot] = [batch |-> b, wr |-> Submitted(BackfillKeys(b))]]
    /\ UNCHANGED <<today, storeVars, last, scan, engineVars, transformVars, loaderVars,
                   lost, nRuns, fnVars>>

\* upload_partition of key k puts the subset of the fetched frame.
UploadOk(p, k) ==
    /\ pc[p] = "backfill"
    /\ bf[p].wr[k] = "pending"
    /\ raw' = [raw EXCEPT ![k] = Object(Subset(bf[p].batch, k[1], k[2]))]
    /\ bf' = [bf EXCEPT ![p].wr[k] = "done"]
    /\ UNCHANGED <<today, enriched, db, ctlVars, ingestVars, engineVars, transformVars,
                   loaderVars, lost, countVars, fnVars>>

\* upload_partition of key k raises: the future keeps the exception.
UploadFail(p, k) ==
    /\ pc[p] = "backfill"
    /\ bf[p].wr[k] = "pending"
    /\ bf' = [bf EXCEPT ![p].wr[k] = "failed"]
    /\ UNCHANGED <<today, storeVars, ctlVars, ingestVars, engineVars, transformVars,
                   loaderVars, lost, countVars, fnVars>>

\* The pool is left: the futures are kept in `tasks` and their results are
\* never asked for, main logs that the backfill is complete, and the process
\* exits with status 0.
BackfillEnd(p) ==
    /\ pc[p] = "backfill"
    /\ Joined(bf[p].wr)
    /\ StageEnds(p, "backfill", "ok", "idle")
    /\ bf' = [bf EXCEPT ![p] = NoBackfill]
    /\ lost' = (lost \/ \E k \in Keys : bf[p].wr[k] = "failed")
    /\ UNCHANGED <<today, storeVars, ingestVars, engineVars, transformVars, loaderVars,
                   countVars, fnVars>>

\* ------------------------------------------------------------- hourly ingestion
\* main of ingest_hourly.py reads the clock.
HourlyBegin(p) ==
    /\ pc[p] = "ingest"
    /\ scan' = [scan EXCEPT ![p] = [NoScan EXCEPT !.day = today]]
    /\ pc' = [pc EXCEPT ![p] = "list"]
    /\ UNCHANGED <<today, storeVars, run, status, last, hist, engineVars, transformVars,
                   loaderVars, backfillVars, countVars, fnVars>>

\* get_latest_ingest_date lists the keys under raw/, or list_objects_v2
\* raises.
ListObjects(p) ==
    /\ pc[p] = "list"
    /\ \/ /\ scan' = [scan EXCEPT ![p].keys = ListRaw(raw)]
          /\ pc' = [pc EXCEPT ![p] = "scan"]
          /\ UNCHANGED <<run, status, last>>
       \/ /\ StageEnds(p, "ingest", "error", "idle")
          /\ scan' = [scan EXCEPT ![p] = NoScan]
    /\ UNCHANGED <<today, storeVars, hist, engineVars, transformVars, loaderVars,
                   backfillVars, countVars, fnVars>>

\* get_latest_ingest_date reads the next listed partition, or get_object
\* raises.
ScanKey(p) ==
    /\ pc[p] = "scan"
    /\ scan[p].keys # <<>>
    /\ \/ /\ scan' = [scan EXCEPT
                        ![p].keys = Tail(@),
                        ![p].read = @ \cup {Head(scan[p].keys)},
                        ![p].latest = LatestStep(@, MaxDateOf(raw[Head(scan[p].keys)].rows))]
          /\ UNCHANGED <<pc, run, status, last>>
       \/ /\ StageEnds(p, "ingest", "error", "idle")
          /\ scan' = [scan EXCEPT ![p] = NoScan]
    /\ UNCHANGED <<today, storeVars, hist, engineVars, transformVars, loaderVars,
                   backfillVars, countVars, fnVars>>

\* save_partitioned_parquet of ingest_hourly.py is called in slot p with the
\* frame df.
Called(p, df) ==
    /\ batch' = [batch EXCEPT ![p] = df]
    /\ rawPre' = [rawPre EXCEPT ![p] = raw]
    /\ phase' = [phase EXCEPT ![p] = "idle"]
    /\ rd' = [rd EXCEPT ![p] = NoFutures]
    /\ wr' = [wr EXCEPT ![p] = NoFutures]
    /\ existing' = [existing EXCEPT ![p] = <<>>]
    /\ merged' = [merged EXCEPT ![p] = <<>>]

\* The rest of main of ingest_hourly.py up to the call of
\* save_partitioned_parquet, with the date main read when it began.  Without a latest date (no object under raw/, or
\* NaT) it ends in an exception before it fetches; when the day after the
\* latest date is after today it returns; otherwise it fetches from that day
\* up to today, and the frame has at most n rows.
ScanEnd(p, n) ==
    /\ pc[p] = "scan"
    /\ scan[p].keys = <<>>
    /\ scan' = [scan EXCEPT ![p] = NoScan]
    /\ LET last_date == scan[p].latest
       IN  \/ /\ last_date \in {None, NaT}
              /\ StageEnds(p, "ingest", "error", "idle")
              /\ UNCHANGED <<hist, engineVars>>
           \/ /\ last_date \notin {None, NaT}
              /\ last_date + 1 > scan[p].day
              /\ StageEnds(p, "ingest", "ok", AfterIngest(run[p].kind))
              /\ UNCHANGED <<hist, engineVars>>
           \/ /\ last_date \notin {None, NaT}
              /\ last_date + 1 <= scan[p].day
              /\ \E b \in FetchUpTo(last_date + 1, scan[p].day + 1, n) :
                    /\ run' = [run EXCEPT ![p].fetched = b]
                    /\ hist' = Fetched(hist, b)
                    /\ Called(p, b)
              /\ pc' = [pc EXCEPT ![p] = "save"]
              /\ UNCHANGED <<status, last>>
    /\ UNCHANGED <<today, storeVars, transformVars, loaderVars, backfillVars, countVars,
                   fnVars>>

\* ------------------------------------------------------------- hourly save
\* save_partitioned_parquet of ingest_hourly.py step by step: the reads and
\* the writes of the partitions run on thread pools, and any of them may fail
\* at the object store.

\* A save that never returns before the reads.
SaveNeverReturnsEarly(df) == FALSE

\* if df.is_empty(): return
SaveReturnsEarly(df) == IsEmpty(df)

engineFrame == <<today, enriched, db, pc, run, last, ingestVars, transformVars,
                 loaderVars, backfillVars, countVars, fnVars, batch, rawPre>>

\* The empty check, the years and keys_to_read, and the submission of the
\* reads.
SaveBegin(p) ==
    /\ pc[p] = "save"
    /\ phase[p] = "idle"
    /\ IF SaveReturnsEarly(batch[p])
       THEN /\ phase' = [phase EXCEPT ![p] = "done"]
            /\ status' = [status EXCEPT ![p] = "ok"]
            /\ rd' = rd
       ELSE /\ phase' = [phase EXCEPT ![p] = "reading"]
            /\ status' = status
            /\ rd' = [rd EXCEPT ![p] = Submitted(MergeKeys(batch[p]))]
    /\ UNCHANGED <<raw, wr, existing, merged, engineFrame>>

\* download_from_s3 of key k returns, and its frame is put in existing_data
\* unless a result has raised before.
ReadOk(p, k) ==
    /\ pc[p] = "save"
    /\ phase[p] = "reading"
    /\ rd[p][k] = "pending"
    /\ rd' = [rd EXCEPT ![p][k] = "done"]
    /\ existing' = IF \E j \in Keys : rd[p][j] = "failed" THEN existing
                   ELSE [existing EXCEPT ![p] = (k :> download_from_s3(raw, k)) @@ @]
    /\ UNCHANGED <<raw, status, phase, wr, merged, engineFrame>>

\* download_from_s3 of key k raises something other than NoSuchKey.
ReadFail(p, k) ==
    /\ pc[p] = "save"
    /\ phase[p] = "reading"
    /\ rd[p][k] = "pending"
    /\ rd' = [rd EXCEPT ![p][k] = "failed"]
    /\ UNCHANGED <<raw, status, phase, wr, existing, merged, engineFrame>>

\* The read pool is left: future.result() has re-raised a failed read, and
\* the function ends there, or every frame is in existing_data.
EndReads(p) ==
    /\ pc[p] = "save"
    /\ phase[p] = "reading"
    /\ Joined(rd[p])
    /\ IF \E k \in Keys : rd[p][k] = "failed"
       THEN /\ phase' = [phase EXCEPT ![p] = "done"]
            /\ status' = [status EXCEPT ![p] = "error"]
       ELSE /\ phase' = [phase EXCEPT ![p] = "merging"]
            /\ status' = status
    /\ UNCHANGED <<raw, rd, wr, existing, merged, engineFrame>>

\* The merge loop over years and tickers, and the submission of the writes.
MergeAll(p) ==
    /\ pc[p] = "save"
    /\ phase[p] = "merging"
    /\ LET K == MergeKeys(batch[p])
       IN  IF K \subseteq DOMAIN existing[p]
           THEN /\ merged' = [merged EXCEPT ![p] =
                              [k \in K |-> Unique(Combined(existing[p][k],
                                                           Subset(batch[p], k[1], k[2])),
                                                  keep)]]
                /\ phase' = [phase EXCEPT ![p] = "writing"]
                /\ status' = status
                /\ wr' = [wr EXCEPT ![p] = Submitted(K)]
           ELSE /\ merged' = merged
                /\ phase' = [phase EXCEPT ![p] = "done"]
                /\ status' = [status EXCEPT ![p] = "error"]
                /\ wr' = wr
    /\ UNCHANGED <<raw, rd, existing, engineFrame>>

\* upload_to_s3 of key k puts the merged frame.
WriteOk(p, k) ==
    /\ pc[p] = "save"
    /\ phase[p] = "writing"
    /\ wr[p][k] = "pending"
    /\ wr' = [wr EXCEPT ![p][k] = "done"]
    /\ raw' = [raw EXCEPT ![k] = Object(merged[p][k])]
    /\ UNCHANGED <<status, phase, rd, existing, merged, engineFrame>>

\* upload_to_s3 of key k raises.
WriteFail(p, k) ==
    /\ pc[p] = "save"
    /\ phase[p] = "writing"
    /\ wr[p][k] = "pending"
    /\ wr' = [wr EXCEPT ![p][k] = "failed"]
    /\ UNCHANGED <<raw, status, phase, rd, existing, merged, engineFrame>>

\* The write pool is left: future.result() has re-raised a failed write, or
\* the function logs that all partitions were uploaded.
EndWrites(p) ==
    /\ pc[p] = "save"
    /\ phase[p] = "writing"
    /\ Joined(wr[p])
    /\ phase' = [phase EXCEPT ![p] = "done"]
    /\ status' = [status EXCEPT ![p] = IF \E k \in Keys : wr[p][k] = "failed"
                                       THEN "error" ELSE "ok"]
    /\ UNCHANGED <<raw, rd, wr, existing, merged, engineFrame>>

\* The process of ingest_hourly.py has exited, its locals are gone, and the
\* launcher goes on.
IngestEnd(p) ==
    /\ pc[p] = "save"
    /\ phase[p] # "idle"
    /\ ProcessExited(phase[p])
    /\ StageEnds(p, "ingest", status[p], AfterIngest(run[p].kind))
    /\ Called(p, EmptyBag)
    /\ UNCHANGED <<today, storeVars, ingestVars, transformVars, loaderVars,
                   backfillVars, countVars, fnVars>>

\* ------------------------------------------------------------- transform stage
\* A save that puts the enriched frame under raw/.
SaveUnderRaw(df, year, ticker) ==
    IF IsEmpty(df) THEN {}
    ELSE {[domain |-> "raw", key |-> <<year, ticker>>, object |-> Object(df)]}

\* save_enriched_data: the put_object calls it makes, none for an empty
\* frame.
save_enriched_data(df, year, ticker) ==
    IF IsEmpty(df) THEN {}
    ELSE {[domain |-> "enriched", key |-> <<year, ticker>>, object |-> Object(df)]}

\* One domain of the partition store after the put_object calls `writes`.
PutObjects(store, domain, writes) ==
    [k \in Keys |->
       IF \E w \in writes : w.domain = domain /\ w.key = k
       THEN (CHOOSE w \in writes : w.domain = domain /\ w.key = k).object
       ELSE store[k]]

\* main of transform.py begins: get_years lists the years under raw/, or the
\* listing raises.
TransformBegin(p) ==
    /\ pc[p] = "transform"
    /\ \/ /\ listed' = [listed EXCEPT ![p] = get_years(raw)]
          /\ UNCHANGED <<outcome, faults, snap>>
          /\ pc' = [pc EXCEPT ![p] = "enrich"]
          /\ UNCHANGED <<run, status, last>>
       \/ /\ StageEnds(p, "transform", "error", "idle")
          /\ UNCHANGED transformVars
    /\ UNCHANGED <<today, storeVars, ingestVars, engineVars, loaderVars, backfillVars,
                   countVars, fnVars>>

\* The years whose pool main of transform.py has entered: every ticker of
\* every earlier listed year has run to its end and none has raised.
YearEntered(p, y) ==
    \A j \in Keys :
        (j[1] \in listed[p] /\ j[1] < y) => outcome[p][j] \notin {"none", "read", "raised"}

\* The keys whose process_ticker has been submitted and has not read yet.
Running(p) == {k \in Keys : /\ outcome[p][k] = "none"
                            /\ k[1] \in listed[p]
                            /\ YearEntered(p, k[1])}

\* The loader runs: the slots whose loader has begun to read the table.
Loading == {q \in Procs : pc[q] \in {"dates", "years", "call", "loading", "deleted",
                                     "written"}}

\* The locals of the loaders after a step of slot p that has changed the
\* table (what = "table") or an enriched partition (what = "input").
Noted(p, what, changed) ==
    [q \in Procs |->
       IF changed /\ q # p /\ q \in Loading
       THEN (IF what = "table" THEN [ld[q] EXCEPT !.soleWriter = FALSE]
             ELSE [ld[q] EXCEPT !.sameInput = FALSE])
       ELSE ld[q]]

\* process_ticker of key k up to the gate: load_raw_df reads the raw object
\* (or the object store fails), and the call ends there unless the frame is
\* to be saved.
TransformRead(p, k) ==
    /\ pc[p] = "enrich"
    /\ k \in Running(p)
    /\ \E fault \in BOOLEAN :
          LET res == ProcessOutcome(raw, k[1], k[2], fault)
          IN  /\ outcome' = [outcome EXCEPT ![p][k] = IF res = "published" THEN "read"
                                                      ELSE res]
              /\ snap' = IF res = "published" THEN [snap EXCEPT ![p][k] = raw[k]] ELSE snap
              /\ faults' = IF fault THEN [faults EXCEPT ![p] = @ \cup {k}] ELSE faults
    /\ UNCHANGED <<today, storeVars, ctlVars, ingestVars, engineVars, listed, loaderVars,
                   backfillVars, countVars, fnVars>>

\* save_enriched_data of key k puts the enriched frame of what was read, or
\* put_object raises.
TransformWrite(p, k) ==
    /\ pc[p] = "enrich"
    /\ outcome[p][k] = "read"
    /\ \E fault \in BOOLEAN :
          LET res == ProcessOutcome(snap[p], k[1], k[2], fault)
              writes == IF res = "published"
                        THEN save_enriched_data(
                                 compute_metrics(load_raw_df(snap[p], k[1], k[2])),
                                 k[1], k[2])
                        ELSE {}
          IN  /\ outcome' = [outcome EXCEPT ![p][k] = res]
              /\ faults' = IF fault THEN [faults EXCEPT ![p] = @ \cup {k}] ELSE faults
              /\ raw' = PutObjects(raw, "raw", writes)
              /\ enriched' = PutObjects(enriched, "enriched", writes)
    /\ snap' = [snap EXCEPT ![p][k] = Absent]
    /\ loadedOk' = (loadedOk /\ enriched' = enriched)
    /\ ld' = Noted(p, "input", enriched' # enriched)
    /\ UNCHANGED <<today, db, ctlVars, ingestVars, engineVars, listed, backfillVars,
                   countVars, fnVars>>

\* transform.py exits, its locals are gone, and the launcher goes on.
TransformEnd(p) ==
    /\ pc[p] = "enrich"
    /\ Running(p) = {}
    /\ \A k \in Keys : outcome[p][k] # "read"
    /\ StageEnds(p, "transform",
                 IF \E k \in Keys : outcome[p][k] = "raised" THEN "error" ELSE "ok",
                 AfterTransform(run[p].kind))
    /\ faults' = [faults EXCEPT ![p] = {}]
    /\ outcome' = [outcome EXCEPT ![p] = NoOutcome]
    /\ listed' = [listed EXCEPT ![p] = {}]
    /\ snap' = [snap EXCEPT ![p] = EmptyStore]
    /\ UNCHANGED <<today, storeVars, ingestVars, engineVars, loaderVars, backfillVars,
                   countVars, fnVars>>

\* ------------------------------------------------------------- load stage
\* run_pipeline.py loads with load_stock_metrics.py, the DAG with load_to_db.py.
VariantOf(kind) ==
    IF kind \in {"run_pipeline", "load_stock_metrics"} THEN "load_stock_metrics"
    ELSE "load_to_db"

\* The keys load_to_stock_metrics reads, in the order of its loops: for year
\* in years, for ticker in tickers.
LoadKeys(years) == SortKeys({k \in Keys : k[1] \in years})

\* What the loop body keeps of the object of one key: nothing when the key is
\* not there, otherwise the rows that pass the duplicate filter.
LoadedFrom(object, latest_dates) ==
    IF object.exists THEN FilterNew(object.rows, latest_dates) ELSE EmptyBag

\* The third stage, main of a loader: the latest year is read from the table.
\* The process may end here with an exception and the table as it was: the
\* import of get_latest_ingest_year fails in the repository as it is, and a
\* connection or a query may fail.
LoadStart(p) ==
    /\ pc[p] = "load"
    /\ \/ /\ StageEnds(p, "load", "error", "idle")
          /\ loadedOk' = FALSE
          /\ ld' = ld
       \/ /\ pc' = [pc EXCEPT ![p] = "dates"]
          /\ ld' = [ld EXCEPT ![p] =
                      [NoLoad EXCEPT !.variant = VariantOf(run[p].kind),
                                     !.yr = get_latest_ingest_year(db),
                                     !.dbPre = db,
                                     !.prevOk = loadedOk,
                                     !.soleWriter = TRUE,
                                     !.sameInput = TRUE]]
          /\ UNCHANGED <<run, status, last, loadedOk>>
    /\ UNCHANGED <<today, storeVars, ingestVars, engineVars, transformVars, backfillVars,
                   countVars, fnVars>>

\* main of a loader goes on: get_latest_dates reads the latest date of each
\* ticker from the table, or the query raises.
LoadDates(p) ==
    /\ pc[p] = "dates"
    /\ \/ /\ StageEnds(p, "load", "error", "idle")
          /\ loadedOk' = FALSE
          /\ ld' = [ld EXCEPT ![p] = NoLoad]
       \/ /\ pc' = [pc EXCEPT ![p] = "years"]
          /\ ld' = [ld EXCEPT ![p].latest_dates = get_latest_dates(db)]
          /\ UNCHANGED <<run, status, last, loadedOk>>
    /\ UNCHANGED <<today, storeVars, ingestVars, engineVars, transformVars, backfillVars,
                   countVars, fnVars>>

\* main reads the clock for the years to load, which end with the year of
\* today.  load_to_db.py has no start year for an empty table, and range()
\* raises.
LoadYears(p) ==
    /\ pc[p] = "years"
    /\ IF ld[p].variant = "load_to_db" /\ ld[p].yr = NoYear
       THEN /\ StageEnds(p, "load", "error", "idle")
            /\ loadedOk' = FALSE
            /\ ld' = [ld EXCEPT ![p] = NoLoad]
       ELSE /\ pc' = [pc EXCEPT ![p] = "call"]
            /\ ld' = [ld EXCEPT ![p].years = StartYear(ld[p].yr, today)..YearOf(today)]
            /\ UNCHANGED <<run, status, last, loadedOk>>
    /\ UNCHANGED <<today, storeVars, ingestVars, engineVars, transformVars, backfillVars,
                   countVars, fnVars>>

\* load_to_stock_metrics is called and reads the clock again.
LoadToday(p) ==
    /\ pc[p] = "call"
    /\ pc' = [pc EXCEPT ![p] = "loading"]
    /\ ld' = [ld EXCEPT ![p].today = today]
    /\ UNCHANGED <<today, storeVars, run, status, last, loadedOk, ingestVars, engineVars,
                   transformVars, backfillVars, countVars, fnVars>>

\* The first transaction of load_to_stock_metrics: the rows of the date it
\* has read are deleted and the deletion is committed.
LoadDelete(p) ==
    /\ pc[p] = "loading"
    /\ db' = DeleteToday(db, ld[p].today)
    /\ pc' = [pc EXCEPT ![p] = "deleted"]
    /\ ld' = [Noted(p, "table", db' # db) EXCEPT ![p].todo = LoadKeys(ld[p].years)]
    /\ UNCHANGED <<today, raw, enriched, run, status, last, loadedOk, ingestVars,
                   engineVars, transformVars, backfillVars, countVars, fnVars>>

\* One pass of the loops of load_to_stock_metrics: the enriched object of the
\* next key is read, and the rows that pass the filter are kept in
\* `dataframes`.
LoadRead(p) ==
    /\ pc[p] = "deleted"
    /\ ld[p].todo # <<>>
    /\ ld' = [ld EXCEPT
                ![p].todo = Tail(@),
                ![p].frames = Concat(@, LoadedFrom(enriched[Head(ld[p].todo)],
                                                   ld[p].latest_dates))]
    /\ UNCHANGED <<today, storeVars, ctlVars, loadedOk, ingestVars, engineVars,
                   transformVars, backfillVars, countVars, fnVars>>

\* The end of load_to_stock_metrics: the frames kept are appended in one
\* write_database call.  load_stock_metrics.py runs
\* unique(subset=["ticker", "date"]) on them first; they come from different
\* partitions and share no key.
LoadAppend(p) ==
    /\ pc[p] = "deleted"
    /\ ld[p].todo = <<>>
    /\ db' = db (+) (IF ld[p].variant = "load_stock_metrics"
                     THEN Unique(<<ld[p].frames>>, keep) ELSE ld[p].frames)
    /\ pc' = [pc EXCEPT ![p] = "written"]
    /\ ld' = Noted(p, "table", db' # db)
    /\ UNCHANGED <<today, raw, enriched, run, status, last, loadedOk, ingestVars,
                   engineVars, transformVars, backfillVars, countVars, fnVars>>

\* A read of an enriched partition or write_database raises: the run ends
\* after the committed deletion and appends nothing.
LoadFail(p) ==
    /\ pc[p] = "deleted"
    /\ StageEnds(p, "load", "error", "idle")
    /\ loadedOk' = FALSE
    /\ ld' = [ld EXCEPT ![p] = NoLoad]
    /\ UNCHANGED <<today, storeVars, ingestVars, engineVars, transformVars,
                   backfillVars, countVars, fnVars>>

\* What may follow the append in main of a loader: load_to_db.py goes on with
\* load_to_sp500_companies, which raises when its object is not there or a
\* query fails.
AfterAppend(variant) == IF variant = "load_to_db" THEN {"ok", "error"} ELSE {"ok"}

\* The rest of main after load_to_stock_metrics has returned: load_to_db.py
\* runs load_to_sp500_companies, which touches neither the stock_metrics
\* table nor the partitions; the process exits and the launcher goes on.
LoadExit(p) ==
    /\ pc[p] = "written"
    /\ \E st \in AfterAppend(ld[p].variant) :
          /\ StageEnds(p, "load", st, "idle")
          /\ loadedOk' = (st = "ok" /\ ld[p].sameInput /\ ld[p].soleWriter)
    /\ ld' = [ld EXCEPT ![p] = NoLoad]
    /\ UNCHANGED <<today, storeVars, ingestVars, engineVars, transformVars,
                   backfillVars, countVars, fnVars>>

\* ------------------------------------------------------------- pipeline
\* save_partitioned_parquet of ingest_hourly.py is called by itself with a
\* frame fetched for any range of dates up to today, of at most n rows,
\* whatever else is running.
MergeRun(n, cap) ==
    /\ InFlight # Procs
    /\ nRuns < cap
    /\ nRuns' = nRuns + 1
    /\ \E b \in FetchUpTo(BACKFILL_START_DATE, today + 1, n) :
          /\ Begins(FreeSlot, "merge", "save", b)
          /\ Called(FreeSlot, b)
          /\ hist' = Fetched(hist, b)
    /\ UNCHANGED <<today, storeVars, last, scan, transformVars, loaderVars, backfillVars,
                   nBackfill, fnVars>>

\* The steps of the processes in flight.
NextBackfill(n, cap) ==
    \/ BackfillMain(n, cap)
    \/ \E p \in Procs : \E k \in Keys : UploadOk(p, k)
    \/ \E p \in Procs : \E k \in Keys : UploadFail(p, k)
    \/ \E p \in Procs : BackfillEnd(p)

NextSave(p) ==
    \/ SaveBegin(p)
    \/ \E k \in Keys : ReadOk(p, k)
    \/ \E k \in Keys : ReadFail(p, k)
    \/ EndReads(p)
    \/ MergeAll(p)
    \/ \E k \in Keys : WriteOk(p, k)
    \/ \E k \in Keys : WriteFail(p, k)
    \/ EndWrites(p)

NextHourly(p, n) ==
    \/ HourlyBegin(p)
    \/ ListObjects(p)
    \/ ScanKey(p)
    \/ ScanEnd(p, n)
    \/ NextSave(p)
    \/ IngestEnd(p)

NextTransformStage(p) ==
    \/ TransformBegin(p)
    \/ \E k \in Keys : TransformRead(p, k)
    \/ \E k \in Keys : TransformWrite(p, k)
    \/ TransformEnd(p)

NextLoad(p) ==
    \/ LoadStart(p)
    \/ LoadDates(p)
    \/ LoadYears(p)
    \/ LoadToday(p)
    \/ LoadDelete(p)
    \/ LoadRead(p)
    \/ LoadAppend(p)
    \/ LoadFail(p)
    \/ LoadExit(p)

\* The invocations, the scripts run by themselves, the backfill and the clock,
\* each at its own pace and side by side; a fetch returns at most MaxMerge
\* rows.
Next ==
    \/ Tick
    \/ NextBackfill(MaxMerge, MaxBackfills)
    \/ \E kind \in Entries \cup Scripts : Invoke(kind, MaxRuns)
    \/ MergeRun(MaxMerge, MaxRuns)
    \/ \E p \in Procs : NextHourly(p, MaxMerge)
    \/ \E p \in Procs : NextTransformStage(p)
    \/ \E p \in Procs : NextLoad(p)

Spec == Init /\ [][Next]_vars

\* ------------------------------------------------------------- prepared stores
\* The raw stores a backfill of at most one row, run by itself on the given
\* day, leaves from an empty store.
Backfilled(day) ==
    {BackfillSave(EmptyStore, b) : b \in FetchUpTo(BACKFILL_START_DATE, day, 1)}

\* The enriched store transform.py leaves from an empty one when it runs by
\* itself on a raw store and nothing fails at the object store: one object
\* for each key whose process_ticker call publishes.
Published(store) ==
    [k \in Keys |->
       IF ProcessOutcome(store, k[1], k[2], FALSE) = "published"
       THEN Object(compute_metrics(load_raw_df(store, k[1], k[2])))
       ELSE Absent]

\* `dataframes` after the loops of load_to_stock_metrics have read the given
\* keys in order from a store that does not change meanwhile.
RECURSIVE Collected(_, _, _)
Collected(store, keys, latest_dates) ==
    IF keys = <<>> THEN EmptyBag
    ELSE Concat(LoadedFrom(store[Head(keys)], latest_dates),
                Collected(store, Tail(keys), latest_dates))

\* The table load_stock_metrics.py leaves when it runs by itself on the given
\* day over an empty table: no latest year and no latest date, so every
\* year from that of BACKFILL_START_DATE on is read and every row is kept.
FirstLoaded(store, day) ==
    Collected(store, LoadKeys(StartYear(NoYear, day)..YearOf(day)), NoLatest)

\* No process runs or has run, no function has been applied.
InitQuiet ==
    /\ InitProcs
    /\ hist = NoHist
    /\ lost = FALSE
    /\ nBackfill = 0
    /\ nRuns = 0
    /\ InitTransformVars
    /\ InitEngineVars
    /\ InitFnVars

\* ------------------------------------------------------------- ingestion alone
\* On the day after BACKFILL_START_DATE the raw store is as a backfill left
\* it.
InitIngest ==
    /\ today = BACKFILL_START_DATE + 1
    /\ InitQuiet
    /\ raw \in Backfilled(today)
    /\ enriched = EmptyStore
    /\ db = EmptyBag
    /\ loadedOk = FALSE

\* ingest_hourly.py and its save are run by themselves, side by side.
NextIngest ==
    \/ Invoke("ingest_hourly", MaxRuns)
    \/ MergeRun(MaxMerge, MaxLead)
    \/ \E p \in Procs : NextHourly(p, MaxMerge)

SpecIngest == InitIngest /\ [][NextIngest]_vars

\* ------------------------------------------------------------- merge twice
\* A process of the given kind is in flight by itself in the first slot, at
\* the given stage.
InFirstSlot(kind, stage) ==
    /\ pc = [p \in Procs |-> IF p = 1 THEN stage ELSE "idle"]
    /\ run = [p \in Procs |->
                IF p = 1 THEN [NoRun EXCEPT !.kind = kind, !.day = today, !.alone = TRUE]
                ELSE NoRun]
    /\ status = [p \in Procs |-> "ok"]
    /\ last = NoLast
    /\ scan = [p \in Procs |-> NoScan]
    /\ ld = [p \in Procs |-> NoLoad]
    /\ bf = [p \in Procs |-> NoBackfill]

\* save_partitioned_parquet of ingest_hourly.py has been called in the first
\* slot with the frame df.
SaveCalled(df) ==
    /\ phase = [p \in Procs |-> "idle"]
    /\ rd = [p \in Procs |-> NoFutures]
    /\ wr = [p \in Procs |-> NoFutures]
    /\ existing = [p \in Procs |-> <<>>]
    /\ merged = [p \in Procs |-> <<>>]
    /\ batch = [p \in Procs |-> IF p = 1 THEN df ELSE EmptyBag]
    /\ rawPre = [p \in Procs |-> IF p = 1 THEN raw ELSE EmptyStore]

\* Nothing is enriched or loaded, and no process has been started but the
\* one in flight.
InitRest ==
    /\ enriched = EmptyStore
    /\ db = EmptyBag
    /\ hist = NoHist
    /\ loadedOk = FALSE
    /\ lost = FALSE
    /\ nBackfill = 0
    /\ nRuns = 1
    /\ InitTransformVars

\* The stores an ingestion run by itself can leave from an empty store.
StartStores ==
    UNION {{HourlySave(EmptyStore, b, keep), BackfillSave(EmptyStore, b)}
             : b \in FetchUpTo(1, MaxDate + 1, MaxMerge)}

\* save_partitioned_parquet of ingest_hourly.py has been called by itself on
\* any such store with any fetched frame.
InitMerge ==
    /\ today = MaxDate
    /\ keep \in KeepRules
    /\ InFirstSlot("merge", "save")
    /\ InitRest
    /\ InitMetricVars
    /\ InitGateVars
    /\ raw \in StartStores
    /\ \E b \in Fetch(1, MaxDate + 1) : SaveCalled(b)
    /\ rawOnce = EmptyStore
    /\ step = 1

\* The first call has returned normally, and its caller calls the save again
\* with the same frame.
MergeAgain(p) ==
    /\ step = 1
    /\ pc[p] = "save"
    /\ phase[p] = "done"
    /\ status[p] = "ok"
    /\ step' = 2
    /\ rawOnce' = raw
    /\ Called(p, batch[p])
    /\ UNCHANGED <<today, storeVars, ctlVars, ingestVars, transformVars, loaderVars,
                   backfillVars, countVars, keep, metricVars, gateVars>>

NextMerge ==
    \/ NextSave(1)
    \/ MergeAgain(1)

SpecMerge == InitMerge /\ [][NextMerge]_vars

\* ------------------------------------------------------------- metrics
\* The frame that holds a row with close f[k] for each (ticker, date) k of
\* the domain of f.
FrameWith(f) ==
    SetToBag({[ticker |-> k[1], date |-> k[2], close |-> f[k]] : k \in DOMAIN f})

\* Closes of a partition of one ticker with prices that rise and fall by
\* tenths.
ExampleCloses == {99, 100, 110}

\* compute_metrics is given any frame without a repeated key, or the
\* partition of the first ticker with closes among ExampleCloses.
InitMetrics ==
    /\ raw = EmptyStore
    /\ keep \in KeepRules
    /\ today = MaxDate
    /\ InitProcs
    /\ InitStages
    /\ InitGateVars
    /\ rawOnce = EmptyStore
    /\ step = 0
    /\ \/ \E K \in SUBSET (Tickers \X Dates) : \E f \in [K -> Closes] : inDf = FrameWith(f)
       \/ \E D \in SUBSET Dates :
             \E f \in [{TICKERS[1]} \X D -> ExampleCloses] : inDf = FrameWith(f)
    /\ outDf = EmptyBag

\* compute_metrics is applied to the frame.
ApplyMetrics ==
    /\ step = 0
    /\ outDf' = compute_metrics(inDf)
    /\ step' = 1
    /\ UNCHANGED <<today, storeVars, ctlVars, ingestVars, engineVars, transformVars,
                   loaderVars, backfillVars, countVars, keep, rawOnce, inDf, gateVars>>

NextMetrics == ApplyMetrics

SpecMetrics == InitMetrics /\ [][NextMetrics]_vars

\* ------------------------------------------------------------- quality gate
\* The columns whose presence, type and nulls vary in the frames given to the
\* gate; every other column is there with its declared type.
DefectColumns == {"date", "ticker", "close", "high"}

\* data_quality_checks is given a frame that lacks some columns, has another
\* type in some of the others, and holds nulls in some critical columns.
InitGate ==
    /\ raw = EmptyStore
    /\ keep \in KeepRules
    /\ today = MaxDate
    /\ InitProcs
    /\ InitStages
    /\ InitMetricVars
    /\ rawOnce = EmptyStore
    /\ step = 0
    /\ \E gone \in SUBSET DefectColumns :
          \E other \in SUBSET (DefectColumns \ gone) :
             \E nulls \in SUBSET ({"ticker", "date"} \ gone) :
                LET cols == DOMAIN expected_schema \ gone
                IN  view = GateView(cols,
                                    [c \in cols |-> IF c \in other THEN "Other"
                                                    ELSE expected_schema[c]],
                                    [c \in {"ticker", "date"} \cap cols |->
                                        IF c \in nulls THEN 1 ELSE 0])
    /\ report = NoReport

\* data_quality_checks is applied to the frame.
ApplyGate ==
    /\ step = 0
    /\ report' = [pass |-> data_quality_checks(view), logged |-> quality_log(view)]
    /\ step' = 1
    /\ UNCHANGED <<today, storeVars, ctlVars, ingestVars, engineVars, transformVars,
                   loaderVars, backfillVars, countVars, keep, rawOnce, metricVars, view>>

NextGate == ApplyGate

SpecGate == InitGate /\ [][NextGate]_vars

\* ------------------------------------------------------------- transform alone
\* A raw partition of one row, on the first day of the year of key k.
OneRow(k, c) ==
    SetToBag({[ticker |-> k[2], date |-> (k[1] - 1) * DaysPerYear + 1, close |-> c]})

\* The raw objects transform.py may find at key k: none, a file with every
\* column, a file without the high column, a file without the date column.
RawObjects(k) ==
    {Absent}
        \cup {ObjectMissing(OneRow(k, c), gone)
                : c \in Closes, gone \in {{}, {"high"}, {"date"}}}

\* transform.py has been started by itself on any such raw store, over an
\* empty enriched store.
InitTransform ==
    /\ today = MaxDate
    /\ keep \in KeepRules
    /\ InFirstSlot("transform", "transform")
    /\ InitRest
    /\ InitEngineVars
    /\ InitMetricVars
    /\ InitGateVars
    /\ rawOnce = EmptyStore
    /\ step = 0
    /\ raw \in [Keys -> UNION {RawObjects(k) : k \in Keys}]
    /\ \A k \in Keys : raw[k] \in RawObjects(k)

NextTransform == NextTransformStage(1)

SpecTransform == InitTransform /\ [][NextTransform]_vars

\* ------------------------------------------------------------- save and backfill
\* The raw stores the save may find: empty, or as a backfill of one row left
\* it.
EngineStores == {BackfillSave(EmptyStore, b) : b \in FetchUpTo(1, MaxDate + 1, 1)}

\* save_partitioned_parquet of ingest_hourly.py has been called by itself on
\* any such store with a fetched frame of at most MaxMerge rows.
InitEngine ==
    /\ today = MaxDate
    /\ keep \in KeepRules
    /\ InFirstSlot("merge", "save")
    /\ InitRest
    /\ InitMetricVars
    /\ InitGateVars
    /\ raw \in EngineStores
    /\ \E b \in FetchUpTo(BACKFILL_START_DATE, MaxDate + 1, MaxMerge) : SaveCalled(b)
    /\ rawOnce = raw
    /\ step = 0

\* The save runs while ingest_backfill_raw.py runs.
NextEngine ==
    \/ \E p \in Procs : NextSave(p)
    \/ NextBackfill(MaxMerge, MaxBackfills)

SpecEngine == InitEngine /\ [][NextEngine]_vars

\* ------------------------------------------------------------- one invocation
\* run_pipeline.py or a run of the stocks_hourly DAG is started on a raw
\* store as a backfill left it, and transform.py is run by itself beside it.
InitInvocation == InitIngest

NextInvocation ==
    \/ \E kind \in Entries : Invoke(kind, MaxLead)
    \/ Invoke("transform", MaxRuns)
    \/ \E p \in Procs : NextHourly(p, MaxMerge)
    \/ \E p \in Procs : NextTransformStage(p)
    \/ \E p \in Procs : NextLoad(p)

SpecInvocation == InitInvocation /\ [][NextInvocation]_vars

\* ------------------------------------------------------------- first load
\* From an empty store and an empty table, the stocks_backfill DAG is
\* triggered with a fetch of up to MaxFetch rows and run_pipeline.py is run,
\* as days pass.
\* No merge meets a repeated key before a second fetch has returned rows;
\* the engine keeps by the first-occurrence rule.
InitFirst ==
    /\ Init
    /\ keep = "first"

NextFirst ==
    \/ Tick
    \/ NextBackfill(MaxFetch, MaxBackfills)
    \/ Invoke("run_pipeline", MaxLead)
    \/ \E p \in Procs : NextHourly(p, MaxMerge)
    \/ \E p \in Procs : NextTransformStage(p)
    \/ \E p \in Procs : NextLoad(p)

SpecFirst == InitFirst /\ [][NextFirst]_vars

\* ------------------------------------------------------------- loaders
\* On the last day, the raw store is as a backfill of one row and an hourly
\* save of one row left it, in either order.  transform.py and
\* load_stock_metrics.py have run on the store, or had run on it before the
\* later of the two saves, or the loader before it and transform.py after it.
\* The frames a loader concatenates come from different partitions and share
\* no key, so that the engine's rule plays no part in these runs: it is the
\* first-occurrence rule, and a stored row that the other rule would have
\* replaced is there with either close.
InitLoad ==
    /\ today = MaxDate
    /\ InitQuiet
    /\ keep = "first"
    /\ \E b1 \in FetchUpTo(BACKFILL_START_DATE, MaxDate, 1) :
          \E b2 \in FetchUpTo(BACKFILL_START_DATE + 1, MaxDate + 1, 1) :
             \/ /\ raw = HourlySave(BackfillSave(EmptyStore, b1), b2, keep)
                /\ \/ /\ enriched = Published(raw)
                      /\ db = FirstLoaded(Published(BackfillSave(EmptyStore, b1)), MaxDate)
                      /\ loadedOk = FALSE
                   \/ /\ enriched = Published(BackfillSave(EmptyStore, b1))
                      /\ db = FirstLoaded(enriched, MaxDate)
                      /\ loadedOk = TRUE
                   \/ /\ enriched = Published(raw)
                      /\ db = FirstLoaded(enriched, MaxDate)
                      /\ loadedOk = TRUE
             \/ LET raw0 == HourlySave(EmptyStore, b2, keep)
                IN  /\ raw = BackfillSave(raw0, b1)
                    /\ enriched = Published(raw0)
                    /\ db = FirstLoaded(enriched, MaxDate)
                    /\ loadedOk = TRUE

\* transform.py and the loaders are run by themselves, side by side.
NextLoaders ==
    \/ \E kind \in {"transform", "load_stock_metrics", "load_to_db"} : Invoke(kind, MaxRuns)
    \/ \E p \in Procs : NextTransformStage(p)
    \/ \E p \in Procs : NextLoad(p)

SpecLoad == InitLoad /\ [][NextLoaders]_vars

\* ------------------------------------------------------------- second run
\* On the day after BACKFILL_START_DATE, the raw store is as a backfill of
\* one row and an hourly save of one row of that day left it; nothing is
\* enriched or loaded yet, or transform.py and load_stock_metrics.py have run
\* on it.
InitRerun ==
    /\ today = BACKFILL_START_DATE + 1
    /\ InitQuiet
    /\ \E b1 \in FetchUpTo(BACKFILL_START_DATE, today, 1) :
          \E b2 \in FetchUpTo(today, today + 1, 1) :
             /\ raw = HourlySave(BackfillSave(EmptyStore, b1), b2, keep)
             /\ \/ /\ enriched = EmptyStore
                   /\ db = EmptyBag
                   /\ loadedOk = FALSE
                \/ /\ enriched = Published(raw)
                   /\ db = FirstLoaded(enriched, today)
                   /\ loadedOk = TRUE

\* run_pipeline.py or a run of the stocks_hourly DAG is started, as days
\* pass.
NextRerun ==
    \/ Tick
    \/ \E kind \in Entries : Invoke(kind, MaxLead)
    \/ \E p \in Procs : NextHourly(p, MaxMerge)
    \/ \E p \in Procs : NextTransformStage(p)
    \/ \E p \in Procs : NextLoad(p)

SpecRerun == InitRerun /\ [][NextRerun]_vars
\* ------------------------------------------------------------- claims
PartitionKey(r) == <<YearOf(r.date), r.ticker>>
RowsOf(store, k) == BagToSet(store[k].rows)

\* A step of the process in slot p: what only its own steps change has
\* changed.
Acts(p) ==
    <<pc[p], status[p], run[p].tries, scan[p], phase[p], rd[p], wr[p], bf[p],
      outcome[p], ld[p].todo>>'
        # <<pc[p], status[p], run[p].tries, scan[p], phase[p], rd[p], wr[p], bf[p],
            outcome[p], ld[p].todo>>

\* The save called in slot p has returned; normally, when the status is "ok".
Returned(p) == pc[p] = "save" /\ phase[p] = "done"

\* The first call of the save has returned normally (merge specification).
FirstReturned(p) == step = 1 /\ Returned(p) /\ status[p] = "ok"

\* The second call has returned normally after a first call that returned
\* normally (merge specification).
SecondReturned(p) == step = 2 /\ Returned(p) /\ status[p] = "ok"

\* C1 (merge specification): after the merge, every fetched row whose key
\* was already in the partition read is in the partition written, and no
\* other row of that key is.
C1_NewWinsTie ==
    \A p \in Procs :
        FirstReturned(p) =>
            \A r \in BagToSet(batch[p]) :
                KeyOf(r) \in KeysOf(rawPre[p][PartitionKey(r)].rows) =>
                    /\ r \in RowsOf(raw, PartitionKey(r))
                    /\ \A x \in RowsOf(raw, PartitionKey(r)) : KeyOf(x) = KeyOf(r) => x = r

\* C2 (ingestion specification): no raw partition holds two rows with the same
\* (ticker, date).
C2_Uniqueness == \A k \in Keys : UniqueKeys(raw[k].rows)

\* A save called by itself has returned after it wrote a fetched row into a
\* partition that a backfill had left, and that now holds rows of several
\* dates.
C2_Witness ==
    \E p \in Procs :
        /\ Returned(p)
        /\ run[p].kind = "merge"
        /\ status[p] = "ok"
        /\ \E k \in Keys :
              /\ wr[p][k] = "done"
              /\ rawPre[p][k].exists
              /\ Height(raw[k].rows) >= 2
              /\ \E r \in BagToSet(batch[p]) : r \in RowsOf(raw, k)

\* C3 (merge specification): a second merge of the same fetched frame leaves
\* every partition as the first merge left it.
C3_MergeIdempotent == \A p \in Procs : SecondReturned(p) => raw = rawOnce

\* The second merge has returned after it wrote a partition in which the
\* first merge had kept the stored row of a key for which the frame brings
\* another close.
C3_Witness ==
    \E p \in Procs :
        /\ SecondReturned(p)
        /\ \E r \in BagToSet(batch[p]) :
              /\ wr[p][PartitionKey(r)] = "done"
              /\ \E x \in RowsOf(rawOnce, PartitionKey(r)) :
                    KeyOf(x) = KeyOf(r) /\ x.close # r.close

\* C4 (merge specification): after each merge the keys of every partition are
\* the keys it had before, which are the keys read for it, together with the
\* keys of the fetched rows of its year and ticker.
C4_MergeIsUnion ==
    \A p \in Procs :
        /\ FirstReturned(p) =>
              \A k \in Keys :
                  /\ KeysOf(raw[k].rows) =
                        KeysOf(rawPre[p][k].rows) \cup KeysOf(Subset(batch[p], k[1], k[2]))
                  /\ k \in DOMAIN existing[p] =>
                        KeysOf(raw[k].rows) =
                           KeysOf(existing[p][k]) \cup KeysOf(Subset(batch[p], k[1], k[2]))
        /\ SecondReturned(p) =>
              \A k \in Keys :
                  KeysOf(raw[k].rows) =
                      KeysOf(rawOnce[k].rows) \cup KeysOf(Subset(batch[p], k[1], k[2]))

\* One merge has returned on a partition that held a key the frame lacks,
\* with a frame that brings a key the partition lacked.
C4_Witness ==
    \E p \in Procs :
        /\ FirstReturned(p)
        /\ \E k \in Keys :
              /\ wr[p][k] = "done"
              /\ KeysOf(rawPre[p][k].rows) \ KeysOf(Subset(batch[p], k[1], k[2])) # {}
              /\ KeysOf(Subset(batch[p], k[1], k[2])) \ KeysOf(rawPre[p][k].rows) # {}

\* The step that ends the loader run of slot p after its first transaction,
\* with the given exit status.
LoaderEnds(p, st) ==
    /\ pc[p] \in {"deleted", "written"}
    /\ pc'[p] \notin {"deleted", "written"}
    /\ IF pc'[p] = "idle" THEN last'.status = st ELSE status'[p] = st

\* No other process has changed the table or an enriched partition since the
\* loader run of slot p began.
Undisturbed(p) == ld[p].soleWriter /\ ld[p].sameInput

\* C5 (loader specification): a loader run that follows a completed loader
\* run, with the enriched partitions as that run read them and with no other
\* process changing them or the table meanwhile, ends with as many rows in
\* the table as it began with.
C5_LoaderIdempotent ==
    [][\A p \in Procs :
          (LoaderEnds(p, "ok") /\ ld[p].prevOk /\ Undisturbed(p))
              => Height(db') = Height(ld[p].dbPre)]_vars

\* An invocation of an entry point has run its three stages by itself and
\* has ended normally on this day.
PipelineDone ==
    /\ last.stage = "load"
    /\ last.status = "ok"
    /\ last.run.kind \in Entries
    /\ last.run.alone

\* C6 (second-run specification): when an invocation that began with a row
\* for (ticker, today) in the table has run its three stages by itself within
\* that day, the table holds exactly one row for (ticker, today), and it has
\* the close the invocation fetched for that key.
C6_SameDayRevision ==
    (PipelineDone /\ today = last.run.day) =>
        \A t \in last.run.had :
            /\ Cardinality({r \in BagToSet(db) : r.ticker = t /\ r.date = today}) = 1
            /\ \A r \in BagToSet(db) : r.ticker = t /\ r.date = today => db[r] = 1
            /\ \A f \in BagToSet(last.run.fetched), r \in BagToSet(db) :
                  (f.ticker = t /\ f.date = today /\ KeyOf(r) = KeyOf(f))
                      => r.close = f.close

\* C7 (loader specification): a loader run that ends in an error after its
\* first transaction, with no other process changing the table meanwhile,
\* leaves the table as it was when the run began.
C7_LoadIsAtomic ==
    [][\A p \in Procs :
          (LoaderEnds(p, "error") /\ ld[p].soleWriter) => db' = ld[p].dbPre]_vars

\* The rows of a ticker in a frame or table.
OfTicker(df, t) == {r \in BagToSet(df) : r.ticker = t}
MaxOf(S) == CHOOSE d \in S : \A e \in S : e <= d
MinOf(S) == CHOOSE d \in S : \A e \in S : d <= e

\* The three stages have run by themselves from an empty table, after the
\* one fetch that returned rows and after the backfill that made it had
\* ended with every upload done.
FirstLoadDone ==
    /\ PipelineDone
    /\ last.first
    /\ last.run.fetches = 1
    /\ ~lost

\* C8 (first-load specification): when ingestion, transform and load have run
\* from an empty store and an empty table and the one fetch that returned
\* rows returned N rows of one year for a ticker, the table holds exactly N
\* rows for the ticker, with the fetched keys; the row of the earliest date
\* has a null daily_return, and the ticker's latest date in the table is the
\* latest fetched date.
C8_FirstLoad ==
    FirstLoadDone =>
        \A t \in Tickers :
            LET F == OfTicker(hist.first, t)
                D == OfTicker(db, t)
            IN  (F # {} /\ Cardinality({YearOf(r.date) : r \in F}) = 1) =>
                    /\ Cardinality(D) = Cardinality(F)
                    /\ \A r \in D : db[r] = 1
                    /\ {KeyOf(r) : r \in D} = {KeyOf(r) : r \in F}
                    /\ \A r \in D : r.date = MinOf({x.date : x \in D})
                                       => r.daily_return = NullRet
                    /\ MaxOf({r.date : r \in D}) = MaxOf({r.date : r \in F})

\* The first load has run after a fetch of two rows of one year for a ticker.
C8_Witness ==
    /\ FirstLoadDone
    /\ \E t \in Tickers :
          /\ Cardinality(OfTicker(hist.first, t)) >= 2
          /\ Cardinality({YearOf(r.date) : r \in OfTicker(hist.first, t)}) = 1
          /\ Cardinality(OfTicker(db, t)) >= 2

\* The raw columns of an enriched row.
RawPart(e) == [ticker |-> e.ticker, date |-> e.date, close |-> e.close]

\* C9 (metrics specification): for a non-empty frame compute_metrics returns
\* as many rows, with the same keys and the same close for each key.
C9_MetricsPreserveRows ==
    (step = 1 /\ ~IsEmpty(inDf)) =>
        /\ Height(outDf) = Height(inDf)
        /\ KeysOf(outDf) = KeysOf(inDf)
        /\ {RawPart(e) : e \in BagToSet(outDf)} = BagToSet(inDf)

\* compute_metrics has run on a frame with several rows of one ticker.
C9_Witness ==
    /\ step = 1
    /\ \E t \in Tickers : Cardinality(OfTicker(inDf, t)) >= 2
    /\ \E e \in BagToSet(outDf) : e.daily_return.kind = "num"

\* C10 (loader specification): when transform.py has run by itself and has
\* ended normally, an enriched row has a null
\* daily_return only if no raw partition holds an earlier row of its ticker.
C10_NullOnlyOnFirstDate ==
    (last.stage = "transform" /\ last.status = "ok" /\ last.run.alone) =>
        \A k \in Keys : \A e \in RowsOf(enriched, k) :
            e.daily_return = NullRet =>
                ~\E j \in Keys : \E r \in RowsOf(raw, j) :
                     r.ticker = e.ticker /\ r.date < e.date

\* The rows of the frame that precede row e of the same ticker.
Before(df, e) == {r \in BagToSet(df) : r.ticker = e.ticker /\ r.date < e.date}
PrevOf(df, e) == CHOOSE r \in Before(df, e) : \A x \in Before(df, e) : x.date <= r.date

\* Closes 100, 110, 99 on three days in a row.
ExampleFrame ==
    SetToBag({[ticker |-> TICKERS[1], date |-> 1, close |-> 100],
              [ticker |-> TICKERS[1], date |-> 2, close |-> 110],
              [ticker |-> TICKERS[1], date |-> 3, close |-> 99]})

\* C11 (metrics specification): in the frame compute_metrics returns, the
\* row of a ticker's earliest date has a null daily_return, and every other
\* row whose preceding row of the same ticker has a non-zero close has
\* daily_return = 100 * (close - previous close) / previous close; closes
\* 100, 110, 99 give null, 10, -10.
C11_DailyReturnValue ==
    step = 1 =>
        /\ \A e \in BagToSet(outDf) :
              IF Before(inDf, e) = {}
              THEN e.daily_return = NullRet
              ELSE PrevOf(inDf, e).close # 0 =>
                      /\ e.daily_return.kind = "num"
                      /\ e.daily_return.num * PrevOf(inDf, e).close
                            = 100 * (e.close - PrevOf(inDf, e).close) * e.daily_return.den
        /\ inDf = ExampleFrame =>
              outDf = SetToBag({Enriched([ticker |-> TICKERS[1], date |-> 1, close |-> 100], NullRet),
                                Enriched([ticker |-> TICKERS[1], date |-> 2, close |-> 110],
                                         [kind |-> "num", num |-> 10, den |-> 1]),
                                Enriched([ticker |-> TICKERS[1], date |-> 3, close |-> 99],
                                         [kind |-> "num", num |-> -10, den |-> 1])})

\* compute_metrics has run on the frame with closes 100, 110, 99.
C11_Witness == step = 1 /\ inDf = ExampleFrame /\ Height(outDf) = 3

\* C12 (loader specification): no step writes an enriched partition that
\* holds a row whose daily_return is infinite or NaN.
C12_NoInfOrNaNPublished ==
    [][\A k \in Keys :
          enriched'[k] # enriched[k] =>
              \A e \in RowsOf(enriched', k) :
                  e.daily_return.kind \notin {"inf", "nan"}]_vars

\* Every check of the gate that a frame violates: each expected column that
\* is not there, each column there with another type, each critical column
\* there with a null.
AllViolations(v) ==
    {<<"missing", c>> : c \in DOMAIN expected_schema \ v.columns}
        \cup {<<"type", c>> : c \in {x \in v.columns \cap DOMAIN expected_schema :
                                        v.dtypes[x] # expected_schema[x]}}
        \cup {<<"null", c>> : c \in {x \in v.columns \cap {"ticker", "date"} :
                                        v.nulls[x] > 0}}

\* C14 (gate specification): the gate fails exactly when some check is
\* violated, and what it reports is every check the frame violates.
C14_GateReportsAll ==
    step = 1 =>
        /\ report.pass = (AllViolations(view) = {})
        /\ report.logged = AllViolations(view)

\* The quality gate fails on the enriched frame of the raw object o.
GateFailsOn(o) ==
    /\ o.exists
    /\ ~IsEmpty(o.rows)
    /\ ~data_quality_checks(ViewOf(compute_metrics(o.rows), o.missing))

\* The raw object the process_ticker call of key k of slot p has read, or
\* would read now.
ReadBy(p, k) == IF outcome[p][k] = "read" THEN snap[p][k] ELSE raw[k]

\* C13 (transform specification): a run of the transform stage writes nothing
\* to the enriched store at a key whose partition fails the quality gate, in
\* particular one whose file has no date column.
C13_GateBlocksPublication ==
    [][\A p \in Procs : \A k \in Keys :
          (Acts(p) /\ pc[p] = "enrich"
              /\ (GateFailsOn(ReadBy(p, k)) \/ "date" \in ReadBy(p, k).missing))
              => enriched'[k] = enriched[k]]_vars

\* Every call of the run of the transform stage in slot p has ended.
TransformSettled(p) ==
    /\ pc[p] = "enrich"
    /\ Running(p) = {}
    /\ \A k \in Keys : outcome[p][k] # "read"

\* The transform stage has run on a store with a partition that the gate
\* rejected, a partition without a date column, and a partition it published.
C13_Witness ==
    \E p \in Procs :
        /\ TransformSettled(p)
        /\ \E k \in Keys : /\ outcome[p][k] = "rejected"
                            /\ GateFailsOn(raw[k])
                            /\ ~enriched[k].exists
        /\ \E k \in Keys : /\ "date" \in raw[k].missing
                            /\ outcome[p][k] = "raised"
                            /\ ~enriched[k].exists
        /\ \E k \in Keys : outcome[p][k] = "published" /\ enriched[k].exists

\* C15 (transform specification): when every call of a run of the transform
\* stage has ended, every key at which nothing fails and whose partition
\* passes the gate has been published, whatever happened at the other keys.
C15_TransformIsolation ==
    \A p \in Procs :
        TransformSettled(p) =>
            \A k \in Keys :
                (k \notin faults[p] /\ ProcessOutcome(raw, k[1], k[2], FALSE) = "published")
                    => enriched[k] = Object(compute_metrics(load_raw_df(raw, k[1], k[2])))

\* C19 (engine specification): no step of an ingestion run removes a
\* (ticker, date) key from a raw partition.
C19_RawKeysStay ==
    [][\A k \in Keys : KeysOf(raw[k].rows) \subseteq KeysOf(raw'[k].rows)]_vars

\* C16 (engine specification): when the hourly merge has ended, every key of
\* the batch whose own read and own write did not fail has been merged and
\* written, whatever happened at the sibling keys.
C16_MergeIsolation ==
    \A p \in Procs :
        (Returned(p) /\ ~IsEmpty(batch[p])) =>
            \A k \in MergeKeys(batch[p]) :
                (rd[p][k] # "failed" /\ wr[p][k] # "failed")
                    => /\ k \in DOMAIN merged[p]
                       /\ wr[p][k] = "done"

\* C17 (engine specification): an ingestion stage that has ended with a
\* failed partition write has ended with an error, in particular when every
\* write it attempted failed; this holds of the hourly save and of the
\* backfill.
C17_WriteFailureIsStageFailure ==
    /\ [](\A p \in Procs :
             (Returned(p) /\ \E k \in Keys : wr[p][k] = "failed") => status[p] = "error")
    /\ [][\A p \in Procs :
             (pc[p] = "backfill" /\ pc'[p] = "idle" /\ \E k \in Keys : bf[p].wr[k] = "failed")
                 => last'.status = "error"]_vars

\* A step of the hourly save of slot p.
SaveSteps(p) == <<phase[p], rd[p], wr[p]>>' # <<phase[p], rd[p], wr[p]>>

\* The hourly save has been called in slot p, with an empty frame.
CalledEmpty(p) == pc[p] = "save" /\ IsEmpty(batch[p])

\* C18 (ingestion specification): with an empty fetched frame
\* save_partitioned_parquet submits no read and no write, none of its steps
\* changes a partition, and it returns without error.
C18_EmptyFetchNoOp ==
    /\ [](\A p \in Procs :
             CalledEmpty(p) =>
                 /\ phase[p] \in {"idle", "done"}
                 /\ rd[p] = NoFutures
                 /\ wr[p] = NoFutures
                 /\ phase[p] = "done" => status[p] = "ok")
    /\ [][\A p \in Procs : (CalledEmpty(p) /\ SaveSteps(p)) => raw' = raw]_vars

\* main of ingest_hourly.py has fetched no row, and the save it called has
\* returned over a store that holds a partition.
C18_Witness ==
    \E p \in Procs :
        /\ run[p].kind = "ingest_hourly"
        /\ CalledEmpty(p)
        /\ phase[p] = "done"
        /\ \E k \in Keys : raw[k].exists

\* C18 as it is stated (ingestion specification): when the fetcher returns
\* no rows, the ingestion stage has read no partition, submits no read and no
\* write, changes no partition, and ends without error.
C18_StageReadsNothing ==
    /\ C18_EmptyFetchNoOp
    /\ [][\A p \in Procs :
             (pc[p] = "scan" /\ pc'[p] = "save" /\ IsEmpty(batch'[p]))
                 => scan[p].read = {}]_vars

\* C20 (engine specification): in the hourly merge, while a partition write
\* is submitted, running or ended, every read of the batch has completed and
\* every merge has been computed.
C20_ReadMergeThenWrite ==
    \A p \in Procs :
        /\ phase[p] \in {"merging", "writing"}
              => \A k \in MergeKeys(batch[p]) : rd[p][k] = "done"
        /\ \A k \in Keys :
              wr[p][k] # "none" =>
                  /\ \A j \in MergeKeys(batch[p]) :
                        rd[p][j] = "done" /\ j \in DOMAIN existing[p]
                  /\ DOMAIN merged[p] = MergeKeys(batch[p])
                  /\ rd[p][k] = "done"

\* A write of the hourly merge has ended on a key whose read returned a
\* stored frame, while the write of a sibling key is still running.
C20_Witness ==
    \E p \in Procs :
        /\ phase[p] = "writing"
        /\ \E k, j \in MergeKeys(batch[p]) :
              /\ wr[p][k] = "done"
              /\ wr[p][j] = "pending"
              /\ ~IsEmpty(existing[p][k])
              /\ rd[p][k] = "done"

\* The step with which the launcher of the invocation in slot p starts the
\* stage at `first`, coming from another stage.
Starts(p, first, stage) == pc[p] \notin stage \cup {"idle"} /\ pc'[p] = first

\* Where a process of the load stage is.
LoadStage == {"load", "dates", "years", "call", "loading", "deleted", "written"}

\* C21 (invocation specification): the transform stage starts only when the
\* process of the ingestion stage has exited normally with every write it
\* submitted done, and the load stage starts only when the process of the
\* transform stage has exited normally with every call of it ended.
C21_StrictStageOrder ==
    [][\A p \in Procs :
          /\ Starts(p, "transform", {"transform", "enrich"}) =>
                /\ pc[p] \in {"scan", "save"}
                /\ status'[p] = "ok"
                /\ pc[p] = "save" =>
                      /\ phase[p] = "done"
                      /\ \A k \in Keys : /\ rd[p][k] \in {"none", "done"}
                                          /\ wr[p][k] \in {"none", "done"}
          /\ Starts(p, "load", LoadStage) =>
                /\ pc[p] = "enrich"
                /\ status'[p] = "ok"
                /\ \A k \in Keys :
                      /\ outcome[p][k] \notin {"read", "raised"}
                      /\ k[1] \in listed[p] => outcome[p][k] # "none"]_vars

\* The three stages of an invocation have run: the ingestion wrote what it
\* fetched, the transform stage published it, and the loader appended it.
C21_Witness ==
    /\ last.stage = "load"
    /\ last.status = "ok"
    /\ last.run.kind \in Entries
    /\ \E r \in BagToSet(last.run.fetched) :
          /\ r \in RowsOf(raw, PartitionKey(r))
          /\ \E e \in BagToSet(db) : RawPart(e) = r

\* C29 (invocation specification): no step of a process of the transform
\* stage changes an object under raw/, and no step of a process of the load
\* stage changes an object under raw/ or enriched/.
C29_StageWriteSets ==
    [][\A p \in Procs :
          Acts(p) =>
              /\ pc[p] \in {"transform", "enrich"} => raw' = raw
              /\ pc[p] \in LoadStage => (raw' = raw /\ enriched' = enriched)]_vars

\* The transform stage of an invocation has published the enriched frame of a
\* raw partition and its loader has appended rows of it to the table.
C29_Witness ==
    /\ last.stage = "load"
    /\ last.status = "ok"
    /\ last.run.kind \in Entries
    /\ nRuns = 1
    /\ \E k \in Keys :
          /\ raw[k].exists
          /\ enriched[k].exists
          /\ KeysOf(enriched[k].rows) = KeysOf(raw[k].rows)
          /\ \E r \in BagToSet(db) : r \in RowsOf(enriched, k)

\* The rows a step appended to the table.
Appended(before, after) == {r \in BagToSet(after) : after[r] > CopiesIn(r, before)}

\* C22 (loader specification): a loader run during which no other loader
\* changes the table, whatever transform run goes on beside it, leaves no two
\* rows with the same (ticker, date) in a table that held none, and every
\* row a loader run appends is dated after the latest date read for its
\* ticker when the run began.
C22_ExactlyOncePerDate ==
    [][\A p \in Procs :
          (Acts(p) /\ pc[p] \in LoadStage) =>
              /\ (ld[p].soleWriter /\ UniqueKeys(db)) => UniqueKeys(db')
              /\ \A r \in Appended(db, db') :
                    r.ticker \in DOMAIN ld[p].latest_dates
                        => r.date > ld[p].latest_dates[r.ticker]]_vars

\* A loader run has read a latest date for a ticker, deleted today's rows
\* and read every partition of its years: it has kept a row of that ticker
\* dated after the latest date, from partitions that also hold a row of the
\* ticker dated on or before it.
C22_Witness ==
    \E p \in Procs :
        /\ pc[p] = "deleted"
        /\ ld[p].todo = <<>>
        /\ \E t \in DOMAIN ld[p].latest_dates :
              /\ \E r \in BagToSet(ld[p].frames) :
                    r.ticker = t /\ r.date > ld[p].latest_dates[t]
              /\ \E k \in Keys : \E r \in RowsOf(enriched, k) :
                    /\ k[1] \in ld[p].years
                    /\ r.ticker = t
                    /\ r.date <= ld[p].latest_dates[t]

\* C23 (loader specification): when a loader run ends normally, with no
\* other process changing the table or the enriched partitions meanwhile, the
\* table holds every row of every enriched partition, of any year, of each
\* ticker that had no row in the table when the run began.
C23_AbsentMarkLoadsAll ==
    [][\A p \in Procs :
          (LoaderEnds(p, "ok") /\ Undisturbed(p)) =>
              \A t \in Tickers \ DOMAIN ld[p].latest_dates :
                  \A k \in Keys : \A r \in RowsOf(enriched, k) :
                      r.ticker = t => r \in BagToSet(db')]_vars

\* The latest date stored for a ticker in the raw partitions; 0 (before every
\* date) when it has no row.
TickerLatest(store, t) ==
    LET D == {r.date : r \in UNION {OfTicker(store[k].rows, t) : k \in Keys}}
    IN  IF D = {} THEN 0 ELSE MaxOf(D)

\* C24 (ingestion specification): when main of ingest_hourly.py has its
\* latest date and fetches or returns, it has asked, for each ticker, for
\* every date after that ticker's own latest stored date: the one start date
\* of its fetch is not after the day that follows the latest stored date of
\* any ticker that is behind today.
C24_RangePerTicker ==
    [][\A p \in Procs :
          (pc[p] = "scan" /\ pc'[p] # "scan" /\ scan[p].keys = <<>>
              /\ scan[p].latest \notin {None, NaT}) =>
              \A t \in Tickers :
                  TickerLatest(raw, t) < scan[p].day
                      => scan[p].latest + 1 <= TickerLatest(raw, t) + 1]_vars

\* The rows of the year and ticker of key k in the frame given to the save
\* of slot p.
FetchedAt(p, k) == {r \in BagToSet(batch[p]) : PartitionKey(r) = k}

\* C25 (engine specification): the hourly merge submits a read or a write
\* only for a key that has a fetched row, and none of its steps changes the
\* object of a key without a fetched row.
C25_OnlyTouchedKeys ==
    /\ [](\A p \in Procs : \A k \in Keys :
             FetchedAt(p, k) = {} => rd[p][k] = "none" /\ wr[p][k] = "none")
    /\ [][\A p \in Procs : \A k \in Keys :
             (FetchedAt(p, k) = {} /\ SaveSteps(p)) => raw'[k] = raw[k]]_vars

\* C26 (engine specification): in the hourly merge, the read of a key of the
\* batch that has no object returns an empty frame, and the partition written
\* for a key whose read returned an empty frame holds exactly the fetched
\* rows of its year and ticker.
C26_MissingIsEmptyBase ==
    [][\A p \in Procs : \A k \in MergeKeys(batch[p]) :
          /\ (rd[p][k] = "pending" /\ rd'[p][k] = "done" /\ ~raw[k].exists
                 /\ k \in DOMAIN existing'[p])
                => IsEmpty(existing'[p][k])
          /\ (wr[p][k] = "pending" /\ wr'[p][k] = "done" /\ IsEmpty(existing[p][k]))
                => /\ raw'[k].exists
                   /\ BagToSet(raw'[k].rows) = FetchedAt(p, k)
                   /\ \A r \in FetchedAt(p, k) : raw'[k].rows[r] = 1]_vars

\* The hourly merge has ended normally on a frame with a row for a key that
\* had no object, while another key of the batch had one.
C26_Witness ==
    \E p \in Procs :
        /\ Returned(p)
        /\ status[p] = "ok"
        /\ \E k \in MergeKeys(batch[p]) :
              /\ ~rawPre[p][k].exists
              /\ IsEmpty(existing[p][k])
              /\ FetchedAt(p, k) # {}
              /\ rd[p][k] = "done"
              /\ wr[p][k] = "done"
        /\ \E j \in MergeKeys(batch[p]) : rawPre[p][j].exists /\ ~IsEmpty(existing[p][j])

\* C27 (loader specification): when a loader run ends normally, with no
\* other process changing the table or the enriched partitions meanwhile, the
\* table holds every (ticker, date) key of the enriched partitions of the
\* years it loaded.
C27_TableCoversEnriched ==
    [][\A p \in Procs :
          (LoaderEnds(p, "ok") /\ Undisturbed(p)) =>
              \A k \in Keys :
                  k[1] \in ld[p].years
                      => KeysOf(enriched[k].rows) \subseteq KeysOf(db')]_vars

\* C28 (loader specification): when a loader run ends normally, with no other
\* process changing the table meanwhile, every ticker that had a latest date
\* in the table when the run began has one that is not earlier.
C28_HighWaterMarkMonotone ==
    [][\A p \in Procs :
          (LoaderEnds(p, "ok") /\ ld[p].soleWriter) =>
              \A t \in DOMAIN ld[p].latest_dates :
                  /\ t \in DOMAIN get_latest_dates(db')
                  /\ get_latest_dates(db')[t] >= ld[p].latest_dates[t]]_vars

====
